---- MODULE Spec2Model ----
(***************************************************************************)
(* LaunchOps backend.                                                      *)
(*   Spec        the identity upsert that runs on authenticated requests   *)
(*               (the revisions of requireAuth / upsertUserFromAuth /      *)
(*               upsertUserProfile / me kept in the repository)            *)
(*   SpecHandle  the handle derivation toHandle                            *)
(*   SpecAuth    requireAuth from the Authorization header to the response *)
(*   SpecName    displayNameFromUser                                       *)
(*   SpecMention extractMentions                                           *)
(*   SpecFeed    the team feed and presence handlers behind requireAuth    *)
(*   SpecOnline  listOnline                                                *)
(*   SpecPage    keyset pagination of the feed beside concurrent sends     *)
(*   SpecRate    the rate limiter among the routes of main()               *)
(*   SpecOps     the checklist, step and incident handlers                 *)
(*   SpecValidate the handlers that validate a request body                *)
(*   SpecDm      the direct-message handlers                               *)
(*   SpecSeed    seedIfEmpty under listChecklists / listIncidents          *)
(*                                                                         *)
(* Strings are sequences of one-character strings, so that trim,           *)
(* toLowerCase, the regular-expression replaces and slice are computed.    *)
(* SQL NULL / JS undefined is the value Null.                              *)
(***************************************************************************)
EXTENDS Integers, Sequences, FiniteSets, TLC

VARIABLES
    build,      \* which revision of the auth middleware / routes is deployed
    users,      \* table users: user_sub -> row, or NoRow
    now,        \* the store's clock, now()
    req,        \* the in-flight requests, one record per handler slot
    lastCommit, \* per subject, the slot whose upsert the store committed last
    hIn,        \* toHandle: the label under test
    hFn,        \* toHandle: which revision of toHandle was applied
    hOnce,      \* toHandle(hIn)
    hTwice,     \* toHandle(toHandle(hIn))
    hPc,        \* toHandle: "in" | "once" | "twice"
    aBuild,     \* requireAuth: which revision of the middleware is deployed
    aUsers,     \* requireAuth: table users, user_sub -> row, or NoRow
    aStoreUp,   \* requireAuth: whether pool.query reaches the store
    aReq,       \* requireAuth: the request in flight
    aBusiness,  \* requireAuth: rows written by business handlers
    nIn,        \* displayNameFromUser: the claims under test
    nFn,        \* displayNameFromUser: which revision was applied
    nOut,       \* displayNameFromUser(nIn)
    nPc,        \* displayNameFromUser: "off" | "in" | "out"
    mIn,        \* extractMentions: the message body under test
    mOut,       \* extractMentions(mIn)
    mPc,        \* extractMentions: "off" | "in" | "out"
    fMw,        \* feed: which revision of requireAuth is deployed
    fRoutes,    \* feed: which revision of the routes is deployed
    fUsers,     \* feed: table users
    fMessages,  \* feed: table team_messages, in insertion order
    fPresence,  \* feed: table presence, user_sub -> row, or NoRow
    fNow,       \* feed: the clock, nowIso()
    fReq,       \* feed: the request in flight
    oIn,        \* listOnline: the records under test
    oRev,       \* listOnline: which revision was applied
    oOut,       \* listOnline: the rows returned
    oPc,        \* listOnline: "off" | "in" | "out"
    pMessages,  \* keyset: table team_messages, rows [id, created_at]
    pClock,     \* keyset: the clock, nowIso()
    pSend,      \* keyset: per send slot, the row whose INSERT is awaited, or NoRow
    pCursor,    \* keyset: the next cursor the client holds, or NoCursor
    pLimit,     \* keyset: the limit parameter of the traversal
    pSeen,      \* keyset: the ids returned so far, in order
    pHasMore,   \* keyset: hasMore of the last page
    pStart,     \* keyset: the ids stored at the first call of the traversal
    pChanged,   \* keyset: an INSERT committed during the traversal
    pPc,        \* keyset: "idle" | "paging" | "end"
    rBuild,     \* limiter: the revision of main, "index" | "part_007"
    rPoints,    \* limiter: per client address, the points consumed in the current window
    rReq,       \* limiter: the request in flight
    bDb,        \* business: the tables checklists, checklist_steps, incidents, incident_updates, audit_log, team_messages, presence, messages
    bTog,       \* business: per toggleStep request in flight, what it read
    bStatus,    \* business: the status of the last response
    bOut,       \* business: the rows of the last getConversation / listMessageThreads response
    sList,      \* seeding: per list request in flight, where it is in seedIfEmpty
    sSeeded     \* seeding: per subject, how many seed checklists and seed incidents were inserted

identVars == <<build, users, now, req, lastCommit>>
handleVars == <<hIn, hFn, hOnce, hTwice, hPc>>
authVars == <<aBuild, aUsers, aStoreUp, aReq, aBusiness>>
nameVars == <<nIn, nFn, nOut, nPc>>
mentionVars == <<mIn, mOut, mPc>>
feedVars == <<fMw, fRoutes, fUsers, fMessages, fPresence, fNow, fReq>>
onlineVars == <<oIn, oRev, oOut, oPc>>
pageVars == <<pMessages, pClock, pSend, pCursor, pLimit, pSeen, pHasMore, pStart, pChanged, pPc>>
rateVars == <<rBuild, rPoints, rReq>>
opsVars == <<bDb, bTog, bStatus, bOut>>
seedVars == <<sList, sSeeded>>
laterVars == <<authVars, nameVars, mentionVars, feedVars, onlineVars, pageVars, rateVars, opsVars, seedVars>>
notAuthVars == <<identVars, handleVars, nameVars, mentionVars, feedVars, onlineVars, pageVars, rateVars, opsVars, seedVars>>
notNameVars == <<identVars, handleVars, authVars, mentionVars, feedVars, onlineVars, pageVars, rateVars, opsVars, seedVars>>
notMentionVars == <<identVars, handleVars, authVars, nameVars, feedVars, onlineVars, pageVars, rateVars, opsVars, seedVars>>
notFeedVars == <<identVars, handleVars, authVars, nameVars, mentionVars, onlineVars, pageVars, rateVars, opsVars, seedVars>>
notOnlineVars == <<identVars, handleVars, authVars, nameVars, mentionVars, feedVars, pageVars, rateVars, opsVars, seedVars>>
notPageVars == <<identVars, handleVars, authVars, nameVars, mentionVars, feedVars, onlineVars, rateVars, opsVars, seedVars>>
notRateVars == <<identVars, handleVars, authVars, nameVars, mentionVars, feedVars, onlineVars, pageVars, opsVars, seedVars>>
notOpsVars == <<identVars, handleVars, authVars, nameVars, mentionVars, feedVars, onlineVars, pageVars, rateVars, seedVars>>
notSeedVars == <<identVars, handleVars, authVars, nameVars, mentionVars, feedVars, onlineVars, pageVars, rateVars, opsVars>>
notBusinessVars == <<identVars, handleVars, authVars, nameVars, mentionVars, feedVars, onlineVars, pageVars, rateVars>>
vars == <<build, users, now, req, lastCommit, hIn, hFn, hOnce, hTwice, hPc,
          aBuild, aUsers, aStoreUp, aReq, aBusiness, nIn, nFn, nOut, nPc,
          mIn, mOut, mPc, fMw, fRoutes, fUsers, fMessages, fPresence, fNow, fReq,
          oIn, oRev, oOut, oPc,
          pMessages, pClock, pSend, pCursor, pLimit, pSeen, pHasMore, pStart, pChanged, pPc,
          rBuild, rPoints, rReq,
          bDb, bTog, bStatus, bOut,
          sList, sSeeded>>

----------------------------------------------------------------------------
(* Bounds *)

\* the clock runs 0..MaxTime
MaxTime == 1
\* longest run of the letter "a" in a label under test (reaches past HandleMax)
MaxRun == 33
\* requireAuth runs: requests are taken until the handlers have written this many rows
MaxBusiness == 2
\* feed: most rows of team_messages
MaxMessages == 1
\* feed: the clock runs 0..MaxFeedTime
MaxFeedTime == 1
\* listOnline runs: most records seen 1, 2, ... seconds ago (reaches past OnlineLimit)
MaxOnline == 51
\* business runs: the checklist ids are 1..MaxChecklists
MaxChecklists == 2
\* business runs: the step ids are 1..MaxSteps
MaxSteps == 2
\* business runs: the incident ids are 1..MaxIncidents
MaxIncidents == 2
\* business runs: the incident update ids are 1..MaxUpdates
MaxUpdates == 2
\* business runs: at most MaxOpsAudit audited writes
MaxOpsAudit == 4
\* limiter runs: an address consumes at most MaxConsumed points in a window
MaxConsumed == 62
\* keyset runs: the message ids are 1..MaxPageIds
MaxPageIds == 4
\* keyset runs: the clock runs 0..MaxPageTime
MaxPageTime == 1

\* extractMentions runs: most "@x" tokens appended to a body under test
\* (reaches past MentionsMax)
MaxMentions == 21

\* toHandle: h.slice(0, 32)
HandleMax == 32

\* extractMentions: .slice(0, 20)
MentionsMax == 20

\* listOnline: INTERVAL '90 seconds'
OnlineWindow == 90
\* listOnline: LIMIT 50
OnlineLimit == 50

\* seedIfEmpty: the five labels of steps
SeedSteps == 5

\* getConversation: LIMIT 200
ConversationLimit == 200

\* config.rateLimitPoints: Number(process.env.RATE_LIMIT_POINTS || 60)
RateLimitPoints == 60

\* listMessages (part_001): Number(req.query.limit ?? 30)
PageLimitDefault == 30
\* listMessages (part_001): Math.min(Math.max(limitRaw, 1), 100)
PageLimitMax == 100

----------------------------------------------------------------------------
(* Characters and strings *)

Null == <<"NULL">>

LowerLetters == {"a", "e", "j", "l", "o", "u", "s", "r", "x", "g", "p"}
Digits == {"0", "1", "2", "9"}
\* the class [a-z0-9_.-]
HandleChars == LowerLetters \cup Digits \cup {"_", ".", "-"}
\* \s
WhiteSpace == {" "}

\* String.prototype.toLowerCase, per character
LowerChar(c) ==
    CASE c = "A" -> "a"
      [] c = "J" -> "j"
      [] OTHER -> c

toLowerCase(s) == [i \in 1..Len(s) |-> LowerChar(s[i])]

RECURSIVE TrimLeft(_)
TrimLeft(s) ==
    IF s = <<>> THEN <<>>
    ELSE IF Head(s) \in WhiteSpace THEN TrimLeft(Tail(s)) ELSE s

RECURSIVE TrimRight(_)
TrimRight(s) ==
    IF s = <<>> THEN <<>>
    ELSE IF s[Len(s)] \in WhiteSpace THEN TrimRight(SubSeq(s, 1, Len(s) - 1)) ELSE s

\* String.prototype.trim
trim(s) == TrimRight(TrimLeft(s))

\* .replace(/[^a-z0-9_.-]+/g, "-"): every maximal run of other characters
\* becomes one "-"
RECURSIVE ReplaceRuns(_, _)
ReplaceRuns(s, inRun) ==
    IF s = <<>> THEN <<>>
    ELSE IF Head(s) \in HandleChars
         THEN <<Head(s)>> \o ReplaceRuns(Tail(s), FALSE)
         ELSE IF inRun THEN ReplaceRuns(Tail(s), TRUE)
                       ELSE <<"-">> \o ReplaceRuns(Tail(s), TRUE)

RECURSIVE StripLeftHyphens(_)
StripLeftHyphens(s) ==
    IF s = <<>> THEN <<>>
    ELSE IF Head(s) = "-" THEN StripLeftHyphens(Tail(s)) ELSE s

RECURSIVE StripRightHyphens(_)
StripRightHyphens(s) ==
    IF s = <<>> THEN <<>>
    ELSE IF s[Len(s)] = "-" THEN StripRightHyphens(SubSeq(s, 1, Len(s) - 1)) ELSE s

\* .replace(/^-+|-+$/g, "")
StripHyphens(s) == StripRightHyphens(StripLeftHyphens(s))

\* String.prototype.slice(0, n)
slice(s, n) == IF Len(s) <= n THEN s ELSE SubSeq(s, 1, n)

\* .replace(/[^a-z0-9_.-]/g, "") and .replace(/\s+/g, ""): characters dropped
RECURSIVE Drop(_, _)
Drop(s, bad) ==
    IF s = <<>> THEN <<>>
    ELSE IF Head(s) \in bad THEN Drop(Tail(s), bad)
         ELSE <<Head(s)>> \o Drop(Tail(s), bad)

KeepHandleChars(s) == Drop(s, {s[i] : i \in 1..Len(s)} \ HandleChars)

\* s.split("@")[0]
RECURSIVE BeforeAt(_)
BeforeAt(s) ==
    IF s = <<>> THEN <<>>
    ELSE IF Head(s) = "@" THEN <<>> ELSE <<Head(s)>> \o BeforeAt(Tail(s))

includesAt(s) == \E i \in 1..Len(s) : s[i] = "@"

\* label || ""
OrEmpty(label) == IF label = Null THEN <<>> ELSE label

\* toHandle of middleware.ts (the same text in part_005 and part_003):
\* trim, lower-case, runs of other characters to "-", strip the outer "-", cut
toHandle(label) ==
    slice(StripHyphens(ReplaceRuns(toLowerCase(trim(OrEmpty(label))), FALSE)), HandleMax)

\* toHandle of the routes revision part_001: the local part of an e-mail
\* address is not cut; otherwise white space and other characters are dropped
toHandleRoutes(label) ==
    LET s == toLowerCase(trim(OrEmpty(label)))
    IN IF includesAt(s)
       THEN KeepHandleChars(BeforeAt(s))
       ELSE slice(KeepHandleChars(Drop(s, WhiteSpace)), HandleMax)

----------------------------------------------------------------------------
(* Labels under test for toHandle: head, a run of "a", tail *)

HandleAlphabet == {"a", "A", "-", " ", "@", "!"}

Strs(n) == UNION {[1..k -> HandleAlphabet] : k \in 0..n}

Run(k) == [i \in 1..k |-> "a"]

HandleInputs == {h \o Run(k) \o t : h \in Strs(1), k \in 0..MaxRun, t \in Strs(2)}

----------------------------------------------------------------------------
(* Identity claims and the users table *)

SubA == <<"a", "|", "1">>
SubB == <<"u", "|", "2">>
Subjects == {SubA, SubB}

NameJo == <<"J", "o">>
NameAl == <<"A", "l">>
\* a name claim that looks like another provider-qualified subject
NameProv == <<"g", "|", "9">>
\* a name claim with no handle character in it
NameBang == <<"!", "!">>
Email == <<"e", "@", "x">>
Email2 == <<"r", "@", "x">>
Pic == <<"p">>
Pic2 == <<"x">>
\* a claim of whitespace only
Blank == <<" ">>

\* AuthUser as verify returns it (auth.ts: an absent or empty claim is undefined)
Claims(s, n, e, p) ==
    [sub |-> s, email |-> e, name |-> n, nickname |-> Null,
     preferred_username |-> Null, picture |-> p,
     given_name |-> Null, family_name |-> Null]

Bare(s) == Claims(s, Null, Null, Null)

ClaimSets ==
    {Bare(SubA),
     Claims(SubA, NameJo, Null, Pic2),
     Claims(SubA, NameAl, Email, Pic),
     Claims(SubA, NameProv, Null, Null),
     Claims(SubA, NameBang, Null, Null),
     Claims(SubA, Null, Email2, Null),
     Claims(SubB, NameJo, Email, Null)}

NoRow == [absent |-> TRUE]

Row(d, e, p, h, t) ==
    [display_name |-> d, email |-> e, picture_url |-> p, handle |-> h, last_seen |-> t]

\* JS truthiness of a string-or-undefined value
Truthy(v) == v # Null /\ v # <<>>

\* a || b
Or(a, b) == IF Truthy(a) THEN a ELSE b

\* a ?? b, COALESCE(a, b)
Coalesce(a, b) == IF a # Null THEN a ELSE b

\* typeof v === "string" && v.trim()
Trimmed(v) == IF v = Null THEN Null ELSE trim(v)

UserLiteral == <<"u", "s", "e", "r">>

\* displayNameFromUser of middleware.ts: every field trimmed
displayNameFromUser(u) ==
    Or(Trimmed(u.name),
       Or(Trimmed(u.nickname),
          Or(Trimmed(u.preferred_username),
             Or(Trimmed(u.email), Or(Trimmed(u.sub), UserLiteral)))))

\* displayNameFromUser of part_005 (beside upsertUserProfile): no trim, ends in u.sub
displayNameFromUserProfile(u) ==
    Or(u.name, Or(u.nickname, Or(u.preferred_username, Or(u.email, u.sub))))

\* mutant: the chain ends at family_name, without u.sub and "user"
displayNameFromUserRoutesNoSub(u) ==
    Or(u.name,
       Or(u.nickname,
          Or(u.preferred_username,
             Or(u.email, Or(u.given_name, Or(u.family_name, Null))))))

\* displayNameFromUser of the routes revision part_001: given_name and
\* family_name take part
displayNameFromUserRoutes(u) ==
    Or(u.name,
       Or(u.nickname,
          Or(u.preferred_username,
             Or(u.email,
                Or(u.given_name, Or(u.family_name, Or(u.sub, UserLiteral)))))))

----------------------------------------------------------------------------
(* The upsert of each revision, as the row it leaves for the subject.      *)
(* old is the row the store holds when the statement runs (NoRow: INSERT,  *)
(* otherwise ON CONFLICT DO UPDATE); t is now().                           *)

\* mutant: ON CONFLICT DO UPDATE without "last_seen = now()"
LastSeenFromAuthKept(old, t) == IF old = NoRow THEN t ELSE old.last_seen

\* middleware.ts upsertUserFromAuth, ON CONFLICT: last_seen = now()
LastSeenFromAuth(old, t) == t

\* upsertUserFromAuth: every column is EXCLUDED.<column>
upsertUserFromAuthRow(u, old, t) ==
    LET displayName == displayNameFromUser(u)
        handle == toHandle(displayName)
    IN Row(displayName, Or(u.email, Null), Or(u.picture, Null), Or(handle, Null),
           LastSeenFromAuth(old, t))

\* part_005 upsertUserProfile: typeof v === "string" && v.trim() ? v.trim() : null
Incoming(v) == IF v # Null /\ Truthy(trim(v)) THEN trim(v) ELSE Null

\* upsertUserProfile: !!incomingDisplay && incomingDisplay !== sub
incomingMeaningful(u) ==
    Truthy(displayNameFromUserProfile(u)) /\ displayNameFromUserProfile(u) # u.sub

\* existingRow?.column
Existing(existingRow, column) ==
    IF existingRow = NoRow THEN Null ELSE existingRow[column]

\* mutant: the "|| sub" default left out
finalDisplayNoSub(u, existingRow) ==
    IF incomingMeaningful(u)
    THEN displayNameFromUserProfile(u)
    ELSE Existing(existingRow, "display_name")

\* upsertUserProfile: incomingMeaningful ? incomingDisplay : (existingRow?.display_name || sub)
finalDisplay(u, existingRow) ==
    IF incomingMeaningful(u)
    THEN displayNameFromUserProfile(u)
    ELSE Or(Existing(existingRow, "display_name"), u.sub)

\* upsertUserProfile: toHandle(finalDisplay) || existingRow?.handle || toHandle(sub) || sub.slice(0, 32)
finalHandle(u, existingRow) ==
    Or(toHandle(finalDisplay(u, existingRow)),
       Or(Existing(existingRow, "handle"),
          Or(toHandle(u.sub), slice(u.sub, HandleMax))))

\* mutant: ON CONFLICT DO UPDATE without "last_seen = now()"
LastSeenProfileKept(old, t) == old.last_seen

\* upsertUserProfile, ON CONFLICT: last_seen = now()
LastSeenProfile(old, t) == t

\* upsertUserProfile's INSERT ... ON CONFLICT, with the values computed from
\* the row its SELECT returned (existingRow)
upsertUserProfileRow(u, existingRow, old, t) ==
    LET finalEmail == Coalesce(Incoming(u.email), Existing(existingRow, "email"))
        finalPic == Coalesce(Incoming(u.picture), Existing(existingRow, "picture_url"))
    IN IF old = NoRow
       THEN Row(finalDisplay(u, existingRow), finalEmail, finalPic,
                finalHandle(u, existingRow), t)
       ELSE Row(finalDisplay(u, existingRow),
                Coalesce(finalEmail, old.email),
                Coalesce(finalPic, old.picture_url),
                finalHandle(u, existingRow),
                LastSeenProfile(old, t))

\* part_001 me, ON CONFLICT: the CASE on users.display_name
meDisplay(u, old, excluded) ==
    IF old.display_name = Null \/ old.display_name = <<>> \/ old.display_name = u.sub
    THEN excluded
    ELSE old.display_name

\* part_001 me: the upsert of the /api/me handler
meRow(u, old, t) ==
    LET displayName == displayNameFromUserRoutes(u)
        handle == Or(toHandleRoutes(displayName), toHandleRoutes(Or(u.sub, UserLiteral)))
    IN IF old = NoRow
       THEN Row(displayName, u.email, u.picture, handle, t)
       ELSE Row(meDisplay(u, old, displayName),
                Coalesce(u.email, old.email),
                Coalesce(u.picture, old.picture_url),
                Coalesce(handle, old.handle),
                t)

----------------------------------------------------------------------------
(* requireAuth in full: the request in flight and the tables it can reach *)

\* String(undefined): what verify makes of a payload without "sub"
Undefined == <<"u", "n", "d", "e", "f", "i", "n", "e", "d">>

\* the keys a users row can get in the requireAuth runs
AuthKeys == {SubA, Undefined}

NoUser == [absent |-> TRUE]

AuthIdleReq ==
    [pc |-> "idle", token |-> "-", payload |-> NoUser, verified |-> NoUser,
     user |-> NoUser, status |-> 0, upserts |-> 0, ran |-> FALSE, storeFailed |-> FALSE]

AuthIdle ==
    /\ aBuild = "fromAuth"
    /\ aUsers = [k \in AuthKeys |-> NoRow]
    /\ aStoreUp = TRUE
    /\ aReq = AuthIdleReq
    /\ aBusiness = 0

NameIdle ==
    /\ nIn = NoUser /\ nFn = "none" /\ nOut = <<>> /\ nPc = "off"

MentionIdle ==
    /\ mIn = <<>> /\ mOut = <<>> /\ mPc = "off"

FeedIdleReq ==
    [pc |-> "idle", user |-> NoUser, op |-> "none", page |-> Null, status |-> 0,
     listing |-> {}]

FeedIdle ==
    /\ fMw = "fromAuth"
    /\ fRoutes = "part_002"
    /\ fUsers = [s \in Subjects |-> NoRow]
    /\ fMessages = <<>>
    /\ fPresence = [s \in Subjects |-> NoRow]
    /\ fNow = 0
    /\ fReq = FeedIdleReq

OnlineIdle ==
    /\ oIn = {} /\ oRev = "none" /\ oOut = <<>> /\ oPc = "off"

PageIdle ==
    /\ pMessages = {} /\ pClock = 0 /\ pSend = <<>> /\ pCursor = <<>>
    /\ pLimit = 0 /\ pSeen = <<>> /\ pHasMore = FALSE /\ pStart = {}
    /\ pChanged = FALSE /\ pPc = "off"

RateIdle ==
    /\ rBuild = "none" /\ rPoints = <<>> /\ rReq = <<>>

OpsIdle ==
    /\ bDb = <<>> /\ bTog = <<>> /\ bStatus = 0 /\ bOut = <<>>

SeedIdle ==
    /\ sList = <<>> /\ sSeeded = <<>>

LaterIdle == AuthIdle /\ NameIdle /\ MentionIdle /\ FeedIdle /\ OnlineIdle /\ PageIdle /\ RateIdle /\ OpsIdle /\ SeedIdle

----------------------------------------------------------------------------
(* Requests *)

\* two handler slots: the two concurrent requests of one round
Reqs == {1, 2}

\* the revisions of the identity upsert: middleware.ts requireAuth with
\* upsertUserFromAuth; part_005 requireAuth with upsertUserProfile; part_006
\* requireAuth (verify only) with the part_001 routes, whose me upserts
Builds == {"fromAuth", "profile", "me"}

Routes == {"me", "other"}

\* the routes that differ in what they do to the users table: only the
\* part_001 routes have a me that writes it
RoutesOf(b) == IF b = "me" THEN Routes ELSE {"other"}

Idle == [pc |-> "idle", user |-> NoUser, route |-> "none", existing |-> NoRow, wrote |-> -1]

\* requireAuth up to "await verify(token)" resolving: req.user = claims.
\* part_006 calls next() at once; the other revisions go on to their upsert.
requireAuth(r, u, route) ==
    /\ req[r].pc = "idle"
    /\ req' = [req EXCEPT ![r] = [Idle EXCEPT !.pc = IF build = "me" THEN "handler" ELSE "verified",
                                              !.user = u, !.route = route]]
    /\ UNCHANGED <<build, users, now, lastCommit, handleVars, laterVars>>

\* middleware.ts requireAuth: await upsertUserFromAuth(req.user); next()
upsertUserFromAuth(r) ==
    /\ build = "fromAuth"
    /\ req[r].pc = "verified"
    /\ LET u == req[r].user
       IN /\ users' = [users EXCEPT ![u.sub] = upsertUserFromAuthRow(u, users[u.sub], now)]
          /\ lastCommit' = [lastCommit EXCEPT ![u.sub] = r]
    /\ req' = [req EXCEPT ![r].pc = "handler", ![r].wrote = now]
    /\ UNCHANGED <<build, now, handleVars, laterVars>>

\* part_005 upsertUserProfile, first statement: SELECT ... WHERE user_sub = $1
upsertUserProfileSelect(r) ==
    /\ build = "profile"
    /\ req[r].pc = "verified"
    /\ req' = [req EXCEPT ![r].pc = "selected", ![r].existing = users[req[r].user.sub]]
    /\ UNCHANGED <<build, users, now, lastCommit, handleVars, laterVars>>

\* part_005 upsertUserProfile, second statement: INSERT ... ON CONFLICT; next()
upsertUserProfileInsert(r) ==
    /\ build = "profile"
    /\ req[r].pc = "selected"
    /\ LET u == req[r].user
       IN /\ users' = [users EXCEPT ![u.sub] =
                          upsertUserProfileRow(u, req[r].existing, users[u.sub], now)]
          /\ lastCommit' = [lastCommit EXCEPT ![u.sub] = r]
    /\ req' = [req EXCEPT ![r].pc = "handler", ![r].wrote = now]
    /\ UNCHANGED <<build, now, handleVars, laterVars>>

\* part_001 me: the upsert, then res.json
me(r) ==
    /\ build = "me"
    /\ req[r].pc = "handler"
    /\ req[r].route = "me"
    /\ LET u == req[r].user
       IN /\ users' = [users EXCEPT ![u.sub] = meRow(u, users[u.sub], now)]
          /\ lastCommit' = [lastCommit EXCEPT ![u.sub] = r]
    /\ req' = [req EXCEPT ![r].pc = "done", ![r].wrote = now]
    /\ UNCHANGED <<build, now, handleVars, laterVars>>

\* every other handler (and routes.ts me, which only answers req.user)
\* leaves the users table alone
handler(r) ==
    /\ req[r].pc = "handler"
    /\ build = "me" => req[r].route # "me"
    /\ req' = [req EXCEPT ![r].pc = "done"]
    /\ UNCHANGED <<build, users, now, lastCommit, handleVars, laterVars>>

\* the responses are out: the slots take new requests
EndRound ==
    /\ \A r \in Reqs : req[r].pc \in {"idle", "done"}
    /\ \E r \in Reqs : req[r].pc = "done"
    /\ req' = [r \in Reqs |-> Idle]
    /\ lastCommit' = [s \in Subjects |-> 0]
    /\ UNCHANGED <<build, users, now, handleVars, laterVars>>

\* the store's clock advances
Tick ==
    /\ now < MaxTime
    /\ now' = now + 1
    /\ UNCHANGED <<build, users, req, lastCommit, handleVars, laterVars>>

HandleIdle ==
    /\ hIn = <<>> /\ hFn = "none" /\ hOnce = <<>> /\ hTwice = <<>> /\ hPc = "off"

Init ==
    /\ build \in Builds
    /\ users = [s \in Subjects |-> NoRow]
    /\ now = 0
    /\ req = [r \in Reqs |-> Idle]
    /\ lastCommit = [s \in Subjects |-> 0]
    /\ HandleIdle
    /\ LaterIdle

Next ==
    \/ \E r \in Reqs, u \in ClaimSets, route \in RoutesOf(build) : requireAuth(r, u, route)
    \/ \E r \in Reqs : upsertUserFromAuth(r)
    \/ \E r \in Reqs : upsertUserProfileSelect(r)
    \/ \E r \in Reqs : upsertUserProfileInsert(r)
    \/ \E r \in Reqs : me(r)
    \/ \E r \in Reqs : handler(r)
    \/ EndRound
    \/ Tick

Spec == Init /\ [][Next]_vars

----------------------------------------------------------------------------
(* toHandle applied to a label, and again to its own result *)

HandleFns == {"toHandle", "toHandleRoutes"}

ApplyHandle(fn, label) ==
    IF fn = "toHandle" THEN toHandle(label) ELSE toHandleRoutes(label)

IdentIdle ==
    /\ build = "fromAuth"
    /\ users = [s \in Subjects |-> NoRow]
    /\ now = 0
    /\ req = [r \in Reqs |-> Idle]
    /\ lastCommit = [s \in Subjects |-> 0]

InitHandle ==
    /\ IdentIdle
    /\ LaterIdle
    /\ hIn \in HandleInputs
    /\ hFn = "none" /\ hOnce = <<>> /\ hTwice = <<>> /\ hPc = "in"

DeriveHandle(fn) ==
    /\ hPc = "in"
    /\ hFn' = fn
    /\ hOnce' = ApplyHandle(fn, hIn)
    /\ hPc' = "once"
    /\ UNCHANGED <<hIn, hTwice, identVars, laterVars>>

DeriveHandleAgain ==
    /\ hPc = "once"
    /\ hTwice' = ApplyHandle(hFn, hOnce)
    /\ hPc' = "twice"
    /\ UNCHANGED <<hIn, hFn, hOnce, identVars, laterVars>>

NextHandle ==
    \/ \E fn \in HandleFns : DeriveHandle(fn)
    \/ DeriveHandleAgain

SpecHandle == InitHandle /\ [][NextHandle]_vars

----------------------------------------------------------------------------
(* requireAuth in full: token, verify, identity upsert, next(), response *)

\* the revisions of requireAuth: middleware.ts 28-45 (upsertUserFromAuth),
\* middleware.ts 164-212 (the upsert inline), part_005 28-47
\* (upsertUserProfile), part_005 179-233 (userinfo, then the upsert inline),
\* part_006 / backend_src middleware.ts (verify only)
AuthBuilds == {"fromAuth", "inline", "profile", "userinfo", "verifyOnly"}

\* the Authorization header: no bearer token, a token jwtVerify throws on,
\* a token jwtVerify accepts
Tokens == {"missing", "rejected", "accepted"}

\* the payload of an accepted token; jwtVerify does not require "sub"
Payloads ==
    {Claims(SubA, NameJo, Email, Null), Bare(SubA),
     Claims(Null, NameJo, Null, Null), Bare(Null)}

\* String(payload.sub)
StringOf(v) == IF v = Null THEN Undefined ELSE v

\* payload.x ? String(payload.x) : undefined
Defined(v) == IF Truthy(v) THEN v ELSE Null

\* auth.ts verify: the AuthUser made of the payload
verify(payload) ==
    [sub |-> StringOf(payload.sub), email |-> Defined(payload.email),
     name |-> Defined(payload.name), nickname |-> Defined(payload.nickname),
     preferred_username |-> Defined(payload.preferred_username),
     picture |-> Defined(payload.picture),
     given_name |-> Defined(payload.given_name),
     family_name |-> Defined(payload.family_name)]

\* part_005 requireAuth (userinfo): hasHumanName
hasHumanName(verified) ==
    Truthy(verified.name) \/ Truthy(verified.nickname)
        \/ Truthy(verified.preferred_username) \/ Truthy(verified.email)

NoInfo == [absent |-> TRUE]

InfoOf(s, n) ==
    [sub |-> s, email |-> Null, name |-> n, nickname |-> Null,
     preferred_username |-> Null, picture |-> Null]

\* what fetchUserInfo can return: null, or the mapped /userinfo document
Infos == {NoInfo, InfoOf(SubA, NameJo), InfoOf(Null, NameJo)}

\* if (info && info.sub) enriched = { ...verified, ...info }
enriched(verified, info) ==
    IF info # NoInfo /\ Truthy(info.sub)
    THEN [verified EXCEPT !.sub = info.sub, !.email = info.email, !.name = info.name,
                          !.nickname = info.nickname,
                          !.preferred_username = info.preferred_username,
                          !.picture = info.picture]
    ELSE verified

\* displayNameFromUser of middleware.ts 129-137: u.name || ... || u.sub
displayNameFromUserInline(u) ==
    Or(u.name, Or(u.nickname, Or(u.preferred_username, Or(u.email, u.sub))))

\* displayNameFromUser of part_005 137-146: full.trim() || (u.sub ? String(u.sub) : "user")
displayNameFromUserInfo(u) ==
    Or(trim(Or(u.name, Or(u.nickname, Or(u.preferred_username, Or(u.email, <<>>))))),
       IF Truthy(u.sub) THEN u.sub ELSE UserLiteral)

\* middleware.ts 186-205: the INSERT ... ON CONFLICT of the inline revision
upsertInlineRow(u, t) ==
    Row(displayNameFromUserInline(u), Coalesce(u.email, Null), Coalesce(u.picture, Null),
        toHandle(displayNameFromUserInline(u)), t)

\* part_005 204-227: the INSERT ... ON CONFLICT of the userinfo revision
upsertUserInfoRow(u, verified, t) ==
    LET displayName == displayNameFromUserInfo(u)
    IN Row(displayName, Coalesce(u.email, Null), Coalesce(u.picture, Null),
           Or(toHandle(displayName), toHandle(verified.sub)), t)

\* the row the deployed revision's upsert leaves for req.user
AuthRow(b, u, verified, old, t) ==
    CASE b = "fromAuth" -> upsertUserFromAuthRow(u, old, t)
      [] b = "inline" -> upsertInlineRow(u, t)
      [] b = "profile" -> upsertUserProfileRow(u, old, old, t)
      [] b = "userinfo" -> upsertUserInfoRow(u, verified, t)

\* mutant: the catch around verify left out, the request goes on to next()
pcAfterVerifyNoCatch(b, token, verified) ==
    IF token = "missing" THEN "done" ELSE "handler"

\* requireAuth: where the request stands once "await verify(token)" has settled
pcAfterVerify(b, token, verified) ==
    IF token # "accepted" THEN "done"
    ELSE IF b = "verifyOnly" THEN "handler"
    ELSE IF b = "userinfo" /\ ~hasHumanName(verified) THEN "userinfo"
    ELSE "upsert"

\* requireAuth, from the header to verify's result:
\* 401 missing_token, 401 invalid_token (catch), or req.user = the claims
requireAuthVerify(token, payload) ==
    /\ aReq.pc = "idle"
    /\ aBusiness < MaxBusiness
    /\ LET verified == IF token = "accepted" THEN verify(payload) ELSE NoUser
           pc == pcAfterVerify(aBuild, token, verified)
       IN aReq' = [AuthIdleReq EXCEPT
                      !.pc = pc,
                      !.token = token,
                      !.payload = IF token = "accepted" THEN payload ELSE NoUser,
                      !.verified = verified,
                      !.user = IF pc = "userinfo" THEN NoUser ELSE verified,
                      !.status = IF pc = "done" THEN 401 ELSE 0]
    /\ UNCHANGED <<aBuild, aUsers, aStoreUp, aBusiness, notAuthVars>>

\* part_005 requireAuth (userinfo): info = await fetchUserInfo(token); req.user = enriched
requireAuthUserInfo(info) ==
    /\ aReq.pc = "userinfo"
    /\ aReq' = [aReq EXCEPT !.pc = "upsert", !.user = enriched(aReq.verified, info)]
    /\ UNCHANGED <<aBuild, aUsers, aStoreUp, aBusiness, notAuthVars>>

\* requireAuth: the awaited upsert, then next(); pool.query throwing lands in
\* the same catch as verify: 401 invalid_token
requireAuthUpsert ==
    /\ aReq.pc = "upsert"
    /\ LET u == aReq.user
       IN IF aBuild = "profile" /\ ~Truthy(u.sub)
          THEN /\ aReq' = [aReq EXCEPT !.pc = "handler"]
               /\ UNCHANGED aUsers
          ELSE IF ~aStoreUp
          THEN /\ aReq' = [aReq EXCEPT !.pc = "done", !.status = 401, !.storeFailed = TRUE]
               /\ UNCHANGED aUsers
          ELSE /\ aUsers' = [aUsers EXCEPT ![u.sub] =
                                AuthRow(aBuild, u, aReq.verified, aUsers[u.sub], 0)]
               /\ aReq' = [aReq EXCEPT !.pc = "handler", !.upserts = @ + 1]
    /\ UNCHANGED <<aBuild, aStoreUp, aBusiness, notAuthVars>>

\* next(): the route's business handler runs; it writes its row and answers
\* 200, or pool.query throws and Express answers 500
businessHandler ==
    /\ aReq.pc = "handler"
    /\ IF aStoreUp
       THEN /\ aBusiness' = aBusiness + 1
            /\ aReq' = [aReq EXCEPT !.pc = "done", !.ran = TRUE, !.status = 200]
       ELSE /\ UNCHANGED aBusiness
            /\ aReq' = [aReq EXCEPT !.pc = "done", !.ran = TRUE, !.status = 500]
    /\ UNCHANGED <<aBuild, aUsers, aStoreUp, notAuthVars>>

\* the response is out; the next request can come
respond ==
    /\ aReq.pc = "done"
    /\ aReq' = AuthIdleReq
    /\ UNCHANGED <<aBuild, aUsers, aStoreUp, aBusiness, notAuthVars>>

\* the store goes away or comes back
storeFlips ==
    /\ aStoreUp' = ~aStoreUp
    /\ UNCHANGED <<aBuild, aUsers, aReq, aBusiness, notAuthVars>>

InitAuth ==
    /\ IdentIdle
    /\ HandleIdle
    /\ SeedIdle
    /\ OpsIdle
    /\ RateIdle
    /\ PageIdle
    /\ OnlineIdle
    /\ NameIdle
    /\ MentionIdle
    /\ FeedIdle
    /\ aBuild \in AuthBuilds
    /\ aUsers = [k \in AuthKeys |-> NoRow]
    /\ aStoreUp = TRUE
    /\ aReq = AuthIdleReq
    /\ aBusiness = 0

NextAuth ==
    \/ \E token \in Tokens, payload \in Payloads : requireAuthVerify(token, payload)
    \/ \E info \in Infos : requireAuthUserInfo(info)
    \/ requireAuthUpsert
    \/ businessHandler
    \/ respond
    \/ storeFlips

SpecAuth == InitAuth /\ [][NextAuth]_vars

----------------------------------------------------------------------------
(* displayNameFromUser applied to a claim set *)

NameFns == {"middleware", "part_005", "part_001"}

ApplyName(fn, u) ==
    CASE fn = "middleware" -> displayNameFromUser(u)
      [] fn = "part_005" -> displayNameFromUserProfile(u)
      [] fn = "part_001" -> displayNameFromUserRoutes(u)

\* claim sets as verify returns them: a claim is absent, whitespace only
\* (the payload's "" becomes undefined in verify, " " stays), or a value
NameInputs ==
    {[sub |-> SubA, name |-> n, nickname |-> k, preferred_username |-> p, email |-> e,
      picture |-> Null, given_name |-> g, family_name |-> f] :
        n \in {Null, Blank, NameJo}, k \in {Null, Blank, <<"n">>},
        p \in {Null, Blank, <<"p", "u">>}, e \in {Null, Blank, Email},
        g \in {Null, <<"G">>}, f \in {Null, <<"F">>}}

InitName ==
    /\ IdentIdle
    /\ HandleIdle
    /\ SeedIdle
    /\ OpsIdle
    /\ RateIdle
    /\ PageIdle
    /\ OnlineIdle
    /\ AuthIdle
    /\ MentionIdle
    /\ FeedIdle
    /\ nIn \in NameInputs
    /\ nFn = "none" /\ nOut = <<>> /\ nPc = "in"

DeriveName(fn) ==
    /\ nPc = "in"
    /\ nFn' = fn
    /\ nOut' = ApplyName(fn, nIn)
    /\ nPc' = "out"
    /\ UNCHANGED <<nIn, notNameVars>>

NextName == \E fn \in NameFns : DeriveName(fn)

SpecName == InitName /\ [][NextName]_vars

----------------------------------------------------------------------------
(* Team feed and presence: sendMessage, listMessages, pingPresence, behind  *)
(* requireAuth. The columns body, mentions, page and created_at of         *)
(* team_messages and the audit_log rows are left out (extractMentions has  *)
(* its own runs); the users rows are written at time 0, the clock stamps   *)
(* the presence rows.                                                      *)

\* the revisions of requireAuth the routes can run behind
FeedMws == {"fromAuth", "profile", "verifyOnly"}

\* the revisions of the routes
FeedRoutes == {"part_001", "part_002", "part_003"}

\* part_001 keeps its identity upsert in me and runs behind the verify-only
\* requireAuth; part_002 and part_003 read the users table and provide for
\* a missing row, so they run behind any revision
FeedBuilds ==
    {<<mw, routes>> \in FeedMws \X FeedRoutes : routes = "part_001" => mw = "verifyOnly"}

\* the routes a revision offers: part_001 has me (upserting) and no
\* pingPresence; in part_002 and part_003 me only answers req.user
FeedOps(routes) ==
    IF routes = "part_001" THEN {"me", "send", "list"} ELSE {"send", "list", "ping"}

FeedClaims ==
    {Bare(SubA), Claims(SubA, NameAl, Email, Null), Claims(SubA, NameBang, Null, Null),
     Claims(SubB, NameJo, Null, Null)}

\* parsed.data.page || null
Pages == {Null, <<"/">>}

\* the users row requireAuth leaves for req.user
FeedMwRow(mw, u, old, t) ==
    CASE mw = "fromAuth" -> upsertUserFromAuthRow(u, old, t)
      [] mw = "profile" -> upsertUserProfileRow(u, old, old, t)
      [] mw = "verifyOnly" -> old

\* part_001 userLabel, part_002 fallbackLabel: email || name || sub || "user"
fallbackLabel(u) == Or(u.email, Or(u.name, Or(u.sub, UserLiteral)))

\* part_003 userLabel: users.display_name of the subject, else displayNameFromUser
userLabel(u, profile) ==
    IF ~Truthy(u.sub) THEN UserLiteral
    ELSE IF profile # NoRow THEN profile.display_name
    ELSE displayNameFromUser(u)

\* sendMessage: by
sendBy(routes, u, profile) ==
    CASE routes = "part_001" -> fallbackLabel(u)
      [] routes = "part_002" -> Or(Existing(profile, "display_name"), fallbackLabel(u))
      [] routes = "part_003" -> userLabel(u, profile)

\* sendMessage: handle
sendHandle(routes, u, profile) ==
    CASE routes = "part_001" ->
            Or(toHandleRoutes(sendBy(routes, u, profile)),
               toHandleRoutes(Or(u.sub, UserLiteral)))
      [] routes = "part_002" -> Or(Existing(profile, "handle"), Null)
      [] routes = "part_003" ->
            Or(toHandle(sendBy(routes, u, profile)), Or(u.sub, UserLiteral))

Message(id, sub, by, handle) ==
    [id |-> id, user_sub |-> sub, by_label |-> by, handle |-> handle]

\* pingPresence: label
pingLabel(routes, u, profile) ==
    IF routes = "part_002"
    THEN Or(Existing(profile, "display_name"), fallbackLabel(u))
    ELSE userLabel(u, profile)

\* pingPresence: handle
pingHandle(routes, u, profile) ==
    IF routes = "part_002"
    THEN Or(Existing(profile, "handle"), Null)
    ELSE Or(toHandle(pingLabel(routes, u, profile)), Or(u.sub, UserLiteral))

PresenceRow(h, l, t, p) == [handle |-> h, label |-> l, last_seen |-> t, page |-> p]

\* pingPresence: INSERT INTO presence ... ON CONFLICT (user_sub) DO UPDATE
pingPresenceRow(routes, u, profile, old, t, page) ==
    LET label == pingLabel(routes, u, profile)
        handle == pingHandle(routes, u, profile)
    IN IF old = NoRow THEN PresenceRow(handle, label, t, page)
       ELSE IF routes = "part_002"
       THEN PresenceRow(Coalesce(handle, old.handle), Coalesce(label, old.label), t, page)
       ELSE PresenceRow(handle, label, t, page)

\* listMessages: "by"
listBy(routes, m, profile) ==
    CASE routes = "part_001" -> Coalesce(Existing(profile, "display_name"), m.by_label)
      [] routes = "part_002" ->
            Coalesce(Existing(profile, "display_name"), Coalesce(m.by_label, m.user_sub))
      [] routes = "part_003" -> Existing(profile, "display_name")

\* listMessages: handle
listHandle(routes, m, profile) ==
    IF routes = "part_002" THEN Coalesce(Existing(profile, "handle"), m.handle)
    ELSE m.handle

\* listMessages: the rows of the SELECT (part_003 joins users with JOIN,
\* the others with LEFT JOIN); at most MaxMessages rows, under every LIMIT
listMessagesRows(routes, messages, profiles) ==
    {[id |-> messages[i].id, userSub |-> messages[i].user_sub,
      by |-> listBy(routes, messages[i], profiles[messages[i].user_sub]),
      handle |-> listHandle(routes, messages[i], profiles[messages[i].user_sub])] :
        i \in {j \in 1..Len(messages) :
                  routes = "part_003" => profiles[messages[j].user_sub] # NoRow}}

\* requireAuth with a valid token: req.user = the claims, the revision's
\* upsert, next()
feedRequireAuth(u, op, page) ==
    /\ fReq.pc \in {"idle", "done"}
    /\ op \in FeedOps(fRoutes)
    /\ op = "send" => Len(fMessages) < MaxMessages
    /\ page # Null => op = "ping"
    /\ fUsers' = [fUsers EXCEPT ![u.sub] = FeedMwRow(fMw, u, fUsers[u.sub], 0)]
    /\ fReq' = [FeedIdleReq EXCEPT !.pc = "handler", !.user = u, !.op = op, !.page = page]
    /\ UNCHANGED <<fMw, fRoutes, fMessages, fPresence, fNow, notFeedVars>>

\* part_001 me: the upsert, then res.json
feedMe ==
    /\ fReq.pc = "handler"
    /\ fReq.op = "me"
    /\ LET u == fReq.user
       IN fUsers' = [fUsers EXCEPT ![u.sub] = meRow(u, fUsers[u.sub], 0)]
    /\ fReq' = [fReq EXCEPT !.pc = "done", !.status = 200]
    /\ UNCHANGED <<fMw, fRoutes, fMessages, fPresence, fNow, notFeedVars>>

\* sendMessage: 400 on a body the schema refuses; else the INSERT, which
\* fails on a NULL by_label or handle (NOT NULL columns)
sendMessage(valid) ==
    /\ fReq.pc = "handler"
    /\ fReq.op = "send"
    /\ LET u == fReq.user
           by == sendBy(fRoutes, u, fUsers[u.sub])
           handle == sendHandle(fRoutes, u, fUsers[u.sub])
       IN IF ~valid
          THEN /\ fReq' = [fReq EXCEPT !.pc = "done", !.status = 400]
               /\ UNCHANGED fMessages
          ELSE IF by = Null \/ handle = Null
          THEN /\ fReq' = [fReq EXCEPT !.pc = "done", !.status = 500]
               /\ UNCHANGED fMessages
          ELSE /\ fMessages' = Append(fMessages,
                                      Message(Len(fMessages) + 1, u.sub, by, handle))
               /\ fReq' = [fReq EXCEPT !.pc = "done", !.status = 201]
    /\ UNCHANGED <<fMw, fRoutes, fUsers, fPresence, fNow, notFeedVars>>

\* listMessages: res.json(rows)
listMessages ==
    /\ fReq.pc = "handler"
    /\ fReq.op = "list"
    /\ fReq' = [fReq EXCEPT !.pc = "done", !.status = 200,
                            !.listing = listMessagesRows(fRoutes, fMessages, fUsers)]
    /\ UNCHANGED <<fMw, fRoutes, fUsers, fMessages, fPresence, fNow, notFeedVars>>

\* pingPresence: 400 on a body the schema refuses; else the upsert, which
\* fails on a NULL handle or label (NOT NULL columns, checked on the
\* proposed row before the conflict is looked for)
pingPresence(valid) ==
    /\ fReq.pc = "handler"
    /\ fReq.op = "ping"
    /\ LET u == fReq.user
           profile == fUsers[u.sub]
       IN IF ~valid
          THEN /\ fReq' = [fReq EXCEPT !.pc = "done", !.status = 400]
               /\ UNCHANGED fPresence
          ELSE IF pingHandle(fRoutes, u, profile) = Null \/ pingLabel(fRoutes, u, profile) = Null
          THEN /\ fReq' = [fReq EXCEPT !.pc = "done", !.status = 500]
               /\ UNCHANGED fPresence
          ELSE /\ fPresence' = [fPresence EXCEPT ![u.sub] =
                                   pingPresenceRow(fRoutes, u, profile, fPresence[u.sub],
                                                   fNow, fReq.page)]
               /\ fReq' = [fReq EXCEPT !.pc = "done", !.status = 200]
    /\ UNCHANGED <<fMw, fRoutes, fUsers, fMessages, fNow, notFeedVars>>

\* the clock advances
feedTick ==
    /\ fNow < MaxFeedTime
    /\ fNow' = fNow + 1
    /\ UNCHANGED <<fMw, fRoutes, fUsers, fMessages, fPresence, fReq, notFeedVars>>

InitFeed ==
    /\ IdentIdle
    /\ HandleIdle
    /\ SeedIdle
    /\ OpsIdle
    /\ RateIdle
    /\ PageIdle
    /\ OnlineIdle
    /\ AuthIdle
    /\ NameIdle
    /\ MentionIdle
    /\ fMw \in FeedMws
    /\ fRoutes \in FeedRoutes
    /\ <<fMw, fRoutes>> \in FeedBuilds
    /\ fUsers = [s \in Subjects |-> NoRow]
    /\ fMessages = <<>>
    /\ fPresence = [s \in Subjects |-> NoRow]
    /\ fNow = 0
    /\ fReq = FeedIdleReq

NextFeed ==
    \/ \E u \in FeedClaims, op \in FeedOps(fRoutes), page \in Pages : feedRequireAuth(u, op, page)
    \/ feedMe
    \/ \E valid \in BOOLEAN : sendMessage(valid)
    \/ listMessages
    \/ \E valid \in BOOLEAN : pingPresence(valid)
    \/ feedTick

SpecFeed == InitFeed /\ [][NextFeed]_vars

----------------------------------------------------------------------------
(* extractMentions applied to a message body *)

MentionLetters ==
    <<"a", "b", "c", "d", "e", "f", "g", "h", "i", "j", "k", "l", "m",
      "n", "o", "p", "q", "r", "s", "t", "u", "v", "w", "x", "y", "z">>

\* the class [a-zA-Z0-9_.-], over the characters of the bodies under test
MentionChars ==
    HandleChars \cup {"A", "J"} \cup {MentionLetters[i] : i \in 1..Len(MentionLetters)}

\* "@a@b@c...": k tokens, each a different letter
RECURSIVE Train(_)
Train(k) ==
    IF k = 0 THEN <<>>
    ELSE Train(k - 1) \o <<"@", MentionLetters[((k - 1) % Len(MentionLetters)) + 1]>>

\* bodies under test: head, a train of tokens, tail
MentionInputs == {h \o Train(k) \o t : h \in Strs(2), k \in 0..MaxMentions, t \in Strs(2)}

\* the greedy [a-zA-Z0-9_.-]+ from position i: the last position of the run
RECURSIVE RunEnd(_, _)
RunEnd(body, i) ==
    IF i < Len(body) /\ body[i + 1] \in MentionChars THEN RunEnd(body, i + 1) ELSE i

\* while ((m = re.exec(body))) out.push(m[1].toLowerCase()), re.lastIndex at i - 1
RECURSIVE ExecLoop(_, _, _)
ExecLoop(body, i, out) ==
    IF i >= Len(body) THEN out
    ELSE IF body[i] = "@" /\ body[i + 1] \in MentionChars
    THEN ExecLoop(body, RunEnd(body, i + 1) + 1,
                  Append(out, toLowerCase(SubSeq(body, i + 1, RunEnd(body, i + 1)))))
    ELSE ExecLoop(body, i + 1, out)

\* mutant: the array as it is, without new Set
FromSetKeepAll(out) == out

\* Array.from(new Set(out)): the first occurrence of every value, in order
FromSet(out) ==
    LET keep == {i \in 1..Len(out) : \A j \in 1..(i - 1) : out[j] # out[i]}
        nth(k) == CHOOSE i \in keep : Cardinality({j \in keep : j < i}) = k - 1
    IN [k \in 1..Cardinality(keep) |-> out[nth(k)]]

extractMentions(body) == slice(FromSet(ExecLoop(body, 1, <<>>)), MentionsMax)

InitMention ==
    /\ IdentIdle
    /\ HandleIdle
    /\ SeedIdle
    /\ OpsIdle
    /\ RateIdle
    /\ PageIdle
    /\ OnlineIdle
    /\ AuthIdle
    /\ NameIdle
    /\ FeedIdle
    /\ mIn \in MentionInputs
    /\ mOut = <<>> /\ mPc = "in"

\* sendMessage: const mentions = extractMentions(parsed.data.body)
DeriveMentions ==
    /\ mPc = "in"
    /\ mOut' = extractMentions(mIn)
    /\ mPc' = "out"
    /\ UNCHANGED <<mIn, notMentionVars>>

SpecMention == InitMention /\ [][DeriveMentions]_vars

----------------------------------------------------------------------------
(* listOnline applied to a table of records. NOW() is 0: a record seen a   *)
(* seconds ago has last_seen = -a. part_001 reads the users rows          *)
(* themselves; part_002 and part_003 read presence joined with users.     *)

OnlineRevs == {"part_001", "part_002", "part_003"}

OnlineRecord(a, profile) == [last_seen |-> 0 - a, profile |-> profile]

\* tables under test: records seen 1..k seconds ago, any of the records at
\* 89, 90, 91 seconds; no record, every second one or all without users row
OnlineInputs ==
    {{OnlineRecord(a, missing = "none" \/ (missing = "odd" /\ a % 2 = 0)) :
         a \in (1..k) \cup edge} :
       k \in 0..MaxOnline, edge \in SUBSET {89, 90, 91}, missing \in {"none", "odd", "all"}}

\* ORDER BY last_seen DESC
RECURSIVE OrderByLastSeenDesc(_)
OrderByLastSeenDesc(rows) ==
    IF rows = {} THEN <<>>
    ELSE LET first == CHOOSE r \in rows : \A q \in rows : q.last_seen <= r.last_seen
         IN <<first>> \o OrderByLastSeenDesc(rows \ {first})

\* listOnline: WHERE last_seen > (NOW() - INTERVAL '90 seconds') ORDER BY
\* last_seen DESC LIMIT 50; part_003 joins users with JOIN, part_002 with
\* LEFT JOIN, part_001 selects from users
listOnline(rev, table) ==
    slice(OrderByLastSeenDesc({r \in table :
                                  /\ r.last_seen > 0 - OnlineWindow
                                  /\ rev = "part_003" => r.profile}),
          OnlineLimit)

InitOnline ==
    /\ IdentIdle
    /\ HandleIdle
    /\ SeedIdle
    /\ OpsIdle
    /\ RateIdle
    /\ PageIdle
    /\ AuthIdle
    /\ NameIdle
    /\ MentionIdle
    /\ FeedIdle
    /\ oIn \in OnlineInputs
    /\ oRev = "none" /\ oOut = <<>> /\ oPc = "in"

\* GET /api/presence/online; the records of part_001 are the users rows
DeriveOnline(rev) ==
    /\ oPc = "in"
    /\ rev = "part_001" => \A r \in oIn : r.profile
    /\ oRev' = rev
    /\ oOut' = listOnline(rev, oIn)
    /\ oPc' = "out"
    /\ UNCHANGED <<oIn, notOnlineVars>>

NextOnline == \E rev \in OnlineRevs : DeriveOnline(rev)

SpecOnline == InitOnline /\ [][NextOnline]_vars

----------------------------------------------------------------------------
(* Keyset pagination of the feed: part_001 listMessages called again and   *)
(* again with the cursor it returned, while part_001 sendMessage requests  *)
(* (createdAt = nowIso(), then the awaited INSERT) run beside it. The ids  *)
(* (nanoid) are any unused ones; only id and created_at of a row matter.   *)

SendSlots == {1, 2}

\* next: null; no before and beforeId in the query
NoCursor == [absent |-> TRUE]

\* the limit parameters under test: absent (<<>>), 0, 1, 2
LimitParams == {<<>>, <<0>>, <<1>>, <<2>>}

\* Number.isFinite(limitRaw) ? Math.min(Math.max(limitRaw, 1), 100) : 30,
\* limitRaw = Number(req.query.limit ?? 30)
clampLimit(raw) ==
    LET limitRaw == IF raw = <<>> THEN PageLimitDefault ELSE raw[1]
        atLeast == IF limitRaw < 1 THEN 1 ELSE limitRaw
    IN IF atLeast > PageLimitMax THEN PageLimitMax ELSE atLeast

\* mutant: (tm.created_at, tm.id) <= ($1, $2)
KeyBeforeOrAt(m, cursor) ==
    \/ m.created_at < cursor.before
    \/ m.created_at = cursor.before /\ m.id <= cursor.beforeId

\* (tm.created_at, tm.id) < ($1::timestamptz, $2::text)
KeyBefore(m, cursor) ==
    \/ m.created_at < cursor.before
    \/ m.created_at = cursor.before /\ m.id < cursor.beforeId

\* ORDER BY tm.created_at DESC, tm.id DESC
RECURSIVE OrderByKeyDesc(_)
OrderByKeyDesc(rows) ==
    IF rows = {} THEN <<>>
    ELSE LET first == CHOOSE r \in rows :
                         \A q \in rows : q = r \/ KeyBefore(q, [before |-> r.created_at,
                                                                beforeId |-> r.id])
         IN <<first>> \o OrderByKeyDesc(rows \ {first})

\* the rows of the SELECT: WHERE (only with before and beforeId), ORDER BY,
\* LIMIT limit + 1
selectRows(messages, cursor, limit) ==
    slice(OrderByKeyDesc({m \in messages : cursor = NoCursor \/ KeyBefore(m, cursor)}),
          limit + 1)

\* mutant: rows.length >= limit
hasMoreAtLimit(rows, limit) == Len(rows) >= limit

\* const hasMore = rows.rows.length > limit
hasMore(rows, limit) == Len(rows) > limit

\* mutant: the cursor of the first row of the page
nextOfFirst(items) ==
    IF items = <<>> THEN NoCursor
    ELSE [before |-> items[1].created_at, beforeId |-> items[1].id]

\* const next = last ? { before: last.createdAt, beforeId: last.id } : null
next(items) ==
    IF items = <<>> THEN NoCursor
    ELSE [before |-> items[Len(items)].created_at, beforeId |-> items[Len(items)].id]

\* part_001 sendMessage up to the awaited INSERT: id = nanoid(), createdAt = nowIso()
sendMessageCreatedAt(slot, id) ==
    /\ pSend[slot] = NoRow
    /\ \A m \in pMessages : m.id # id
    /\ \A other \in SendSlots : IF pSend[other] = NoRow THEN TRUE ELSE pSend[other].id # id
    /\ pSend' = [pSend EXCEPT ![slot] = [id |-> id, created_at |-> pClock]]
    /\ UNCHANGED <<pMessages, pClock, pCursor, pLimit, pSeen, pHasMore, pStart, pChanged,
                   pPc, notPageVars>>

\* part_001 sendMessage: the INSERT commits
sendMessageInsert(slot) ==
    /\ pSend[slot] # NoRow
    /\ pMessages' = pMessages \cup {pSend[slot]}
    /\ pSend' = [pSend EXCEPT ![slot] = NoRow]
    /\ pChanged' = (pChanged \/ pPc = "paging")
    /\ UNCHANGED <<pClock, pCursor, pLimit, pSeen, pHasMore, pStart, pPc, notPageVars>>

\* part_001 listMessages: the first call of a traversal (no cursor, the
\* limit parameter raw) or the next one (the cursor returned, the same limit)
listMessagesKeyset(raw) ==
    /\ pPc \in {"idle", "paging"}
    /\ pPc = "paging" => clampLimit(raw) = pLimit
    /\ LET limit == clampLimit(raw)
           rows == selectRows(pMessages, pCursor, limit)
           items == slice(rows, limit)
       IN /\ pLimit' = limit
          /\ pSeen' = pSeen \o [k \in 1..Len(items) |-> items[k].id]
          /\ pHasMore' = hasMore(rows, limit)
          /\ pCursor' = next(items)
          /\ pPc' = IF hasMore(rows, limit) THEN "paging" ELSE "end"
          /\ pStart' = IF pPc = "idle" THEN {m.id : m \in pMessages} ELSE pStart
    /\ UNCHANGED <<pMessages, pClock, pSend, pChanged, notPageVars>>

\* the clock advances
pageTick ==
    /\ pClock < MaxPageTime
    /\ pClock' = pClock + 1
    /\ UNCHANGED <<pMessages, pSend, pCursor, pLimit, pSeen, pHasMore, pStart, pChanged,
                   pPc, notPageVars>>

InitPage ==
    /\ IdentIdle
    /\ HandleIdle
    /\ SeedIdle
    /\ OpsIdle
    /\ RateIdle
    /\ AuthIdle
    /\ NameIdle
    /\ MentionIdle
    /\ FeedIdle
    /\ OnlineIdle
    /\ pMessages = {}
    /\ pClock = 0
    /\ pSend = [slot \in SendSlots |-> NoRow]
    /\ pCursor = NoCursor
    /\ pLimit = 0
    /\ pSeen = <<>>
    /\ pHasMore = FALSE
    /\ pStart = {}
    /\ pChanged = FALSE
    /\ pPc = "idle"

NextPage ==
    \/ \E slot \in SendSlots, id \in 1..MaxPageIds : sendMessageCreatedAt(slot, id)
    \/ \E slot \in SendSlots : sendMessageInsert(slot)
    \/ \E raw \in LimitParams : listMessagesKeyset(raw)
    \/ pageTick

SpecPage == InitPage /\ [][NextPage]_vars

----------------------------------------------------------------------------
(* The rate limiter: main() of index.ts and of part_007 mounts rateLimit   *)
(* with app.use("/api", rateLimit) among the routes; express runs the      *)
(* layers that match a request in the order of their registration. One     *)
(* request at a time goes through its layers.                              *)

RateBuilds == {"index", "part_007"}

Addresses == {"ip1", "ip2"}

RateRoutes == {"GET /api/health", "GET /api/me", "POST /api/messages",
               "DELETE /api/checklists/:id", "DELETE /api/incidents/:id"}

\* the layers of main() that match the route, in registration order, up to
\* the first that ends the request
layers(b, route) ==
    IF route = "GET /api/health" THEN <<"handler">>
    ELSE IF route \in {"GET /api/me", "POST /api/messages"}
         THEN <<"rateLimit", "requireAuth", "handler">>
    ELSE IF b = "part_007" THEN <<"requireAuth", "handler">>
    ELSE <<"rateLimit", "notFound">>

RateIdleReq == [pc |-> "idle", ip |-> "none", route |-> "none", token |-> "-",
                stack |-> <<>>, ran |-> {}, status |-> 0, exhausted |-> FALSE]

\* limiter.consume(key): resolves while the points consumed, this one
\* included, do not exceed config.rateLimitPoints
consume(consumed) == consumed + 1 <= RateLimitPoints

\* a request arrives
rateArrive(ip, route, token) ==
    /\ rReq.pc = "idle"
    /\ rPoints[ip] < MaxConsumed
    /\ rReq' = [RateIdleReq EXCEPT !.pc = "run", !.ip = ip, !.route = route,
                                   !.token = token, !.stack = layers(rBuild, route),
                                   !.exhausted = (rPoints[ip] >= RateLimitPoints)]
    /\ UNCHANGED <<rBuild, rPoints, notRateVars>>

\* middleware.ts rateLimit
rateLimit ==
    /\ rReq.pc = "run"
    /\ Head(rReq.stack) = "rateLimit"
    /\ rPoints' = [rPoints EXCEPT ![rReq.ip] = @ + 1]
    /\ rReq' = IF consume(rPoints[rReq.ip])
               THEN [rReq EXCEPT !.stack = Tail(@), !.ran = @ \cup {"rateLimit"}]
               ELSE [rReq EXCEPT !.stack = <<>>, !.ran = @ \cup {"rateLimit"},
                                 !.status = 429, !.pc = "done"]
    /\ UNCHANGED <<rBuild, notRateVars>>

\* middleware.ts requireAuth, as far as the limiter sees it: next() or 401
rateRequireAuth ==
    /\ rReq.pc = "run"
    /\ Head(rReq.stack) = "requireAuth"
    /\ rReq' = IF rReq.token = "accepted"
               THEN [rReq EXCEPT !.stack = Tail(@), !.ran = @ \cup {"requireAuth"}]
               ELSE [rReq EXCEPT !.stack = <<>>, !.ran = @ \cup {"requireAuth"},
                                 !.status = 401, !.pc = "done"]
    /\ UNCHANGED <<rBuild, rPoints, notRateVars>>

\* the business handler of the route, or express's 404 when no route matches
rateHandler ==
    /\ rReq.pc = "run"
    /\ Head(rReq.stack) \in {"handler", "notFound"}
    /\ rReq' = [rReq EXCEPT !.stack = <<>>, !.ran = @ \cup {Head(rReq.stack)},
                            !.status = IF Head(rReq.stack) = "handler" THEN 200 ELSE 404,
                            !.pc = "done"]
    /\ UNCHANGED <<rBuild, rPoints, notRateVars>>

\* the response is out
rateDone ==
    /\ rReq.pc = "done"
    /\ rReq' = RateIdleReq
    /\ UNCHANGED <<rBuild, rPoints, notRateVars>>

\* the window (config.rateLimitDurationSeconds) of an address ends
windowEnds(ip) ==
    /\ rReq.pc = "idle"
    /\ rPoints[ip] > 0
    /\ rPoints' = [rPoints EXCEPT ![ip] = 0]
    /\ UNCHANGED <<rBuild, rReq, notRateVars>>

InitRate ==
    /\ IdentIdle
    /\ HandleIdle
    /\ SeedIdle
    /\ OpsIdle
    /\ AuthIdle
    /\ NameIdle
    /\ MentionIdle
    /\ FeedIdle
    /\ OnlineIdle
    /\ PageIdle
    /\ rBuild \in RateBuilds
    /\ rPoints = [ip \in Addresses |-> 0]
    /\ rReq = RateIdleReq

NextRate ==
    \/ \E ip \in Addresses, route \in RateRoutes, token \in {"rejected", "accepted"} :
          rateArrive(ip, route, token)
    \/ rateLimit
    \/ rateRequireAuth
    \/ rateHandler
    \/ rateDone
    \/ \E ip \in Addresses : windowEnds(ip)

SpecRate == InitRate /\ [][NextRate]_vars

----------------------------------------------------------------------------
(* The business handlers of routes.ts behind requireAuth, called by the    *)
(* subject u of req.user. A handler is one step, but toggleStep, whose     *)
(* read of done and UPDATE are two awaited queries: two toggleStep         *)
(* requests can be in flight, the first free slot taking the next. Ids (nanoid) are any unused ones. A body is  *)
(* its parse result for the zod schemas, and a value for the status enum   *)
(* and for the trimmed fields of a direct message. audit_log, team_messages*)
(* are their row counts, presence is its set of keys, messages is in       *)
(* insertion order with created_at a count of milliseconds.                *)

ChecklistIds == 1..MaxChecklists
StepIds == 1..MaxSteps
IncidentIds == 1..MaxIncidents
UpdateIds == 1..MaxUpdates
ToggleSlots == {1, 2}

\* patchIncidentStatusSchema: z.enum([...]); "closed" stands for any other body
Statuses == {"open", "investigating", "mitigated", "resolved"}
StatusBodies == {"investigating", "resolved", "closed"}

\* the to and body fields of a direct message, after ?? "": absent, blank,
\* a subject, a subject between spaces
PaddedB == Blank \o SubB \o Blank
DmTos == {<<>>, Blank, SubA, SubB, Undefined, PaddedB}
DmBodies == {<<>>, Blank, NameJo}

EmptyDb == [checklists |-> {}, steps |-> {}, incidents |-> {}, updates |-> {},
            audit |-> 0, team_messages |-> 0, presence |-> {}, messages |-> <<>>]

ToggleIdle == [pc |-> "idle", sub |-> <<>>, cid |-> 0, sid |-> 0, nextDone |-> FALSE]

NoOut == [conv |-> <<>>, threads |-> {}]

\* mutant: SELECT 1 FROM checklists / incidents WHERE id = $2
existsAnyOwner(rows, u, id) == \E r \in rows : r.id = id

\* SELECT 1 FROM checklists / incidents WHERE user_sub = $1 AND id = $2
exists(rows, u, id) == \E r \in rows : r.user_sub = u /\ r.id = id

\* mutant: a rejection leaves an audit row
rejectAudited(status) ==
    /\ bStatus' = status
    /\ bOut' = NoOut
    /\ bDb.audit < MaxOpsAudit
    /\ bDb' = [bDb EXCEPT !.audit = @ + 1]
    /\ UNCHANGED <<bTog, notOpsVars>>

\* res.status(...).json(...) without a write
reject(status) ==
    /\ bStatus' = status
    /\ bOut' = NoOut
    /\ UNCHANGED <<bDb, bTog, notOpsVars>>

\* the awaited writes of a handler, its audit row and its response
commit(db, status) ==
    /\ bDb.audit < MaxOpsAudit
    /\ bDb' = [db EXCEPT !.audit = @ + 1]
    /\ bStatus' = status
    /\ bOut' = NoOut
    /\ UNCHANGED <<bTog, notOpsVars>>

createChecklist(u, valid) ==
    IF ~valid THEN reject(400)
    ELSE \E id \in ChecklistIds :
            /\ \A c \in bDb.checklists : c.id # id
            /\ commit([bDb EXCEPT !.checklists = @ \cup {[id |-> id, user_sub |-> u]}], 201)

addStep(u, checklistId, valid) ==
    IF ~exists(bDb.checklists, u, checklistId) THEN reject(404)
    ELSE IF ~valid THEN reject(400)
    ELSE \E stepId \in StepIds :
            /\ \A s \in bDb.steps : s.id # stepId
            /\ commit([bDb EXCEPT !.steps = @ \cup {[id |-> stepId, checklist_id |-> checklistId,
                                                     done |-> FALSE]}], 201)

\* toggleStep up to nextDone = !s.rows[0].done
toggleStepSelect(slot, u, checklistId, stepId) ==
    /\ bTog[slot].pc = "idle"
    /\ \A other \in ToggleSlots : other < slot => bTog[other].pc # "idle"
    /\ IF ~exists(bDb.checklists, u, checklistId) THEN reject(404)
       ELSE IF ~\E s \in bDb.steps : s.checklist_id = checklistId /\ s.id = stepId
            THEN reject(404)
       ELSE LET s == CHOOSE s \in bDb.steps : s.checklist_id = checklistId /\ s.id = stepId
            IN /\ bTog' = [bTog EXCEPT ![slot] = [pc |-> "update", sub |-> u, cid |-> checklistId,
                                                   sid |-> stepId, nextDone |-> ~s.done]]
               /\ UNCHANGED <<bDb, bStatus, bOut, notOpsVars>>

\* toggleStep from UPDATE checklist_steps SET done = $1 on
toggleStepUpdate(slot) ==
    /\ bTog[slot].pc = "update"
    /\ bDb.audit < MaxOpsAudit
    /\ bDb' = [bDb EXCEPT !.audit = @ + 1,
                          !.steps = {IF s.id = bTog[slot].sid /\ s.checklist_id = bTog[slot].cid
                                     THEN [s EXCEPT !.done = bTog[slot].nextDone] ELSE s : s \in @}]
    /\ bTog' = [bTog EXCEPT ![slot] = ToggleIdle]
    /\ bStatus' = 200
    /\ bOut' = NoOut
    /\ UNCHANGED notOpsVars

\* checklist_steps.checklist_id REFERENCES checklists(id) ON DELETE CASCADE
deleteChecklist(u, checklistId) ==
    IF ~exists(bDb.checklists, u, checklistId) THEN reject(404)
    ELSE commit([bDb EXCEPT !.checklists = {c \in @ : c.id # checklistId},
                            !.steps = {s \in @ : s.checklist_id # checklistId}], 200)

deleteChecklistStep(u, checklistId, stepId) ==
    IF ~exists(bDb.checklists, u, checklistId) THEN reject(404)
    ELSE IF ~\E s \in bDb.steps : s.checklist_id = checklistId /\ s.id = stepId
         THEN reject(404)
    ELSE commit([bDb EXCEPT !.steps = {s \in @ : ~(s.checklist_id = checklistId /\ s.id = stepId)}],
                200)

createIncident(u, valid) ==
    IF ~valid THEN reject(400)
    ELSE \E id \in IncidentIds :
            /\ \A i \in bDb.incidents : i.id # id
            /\ commit([bDb EXCEPT !.incidents = @ \cup {[id |-> id, user_sub |-> u,
                                                         status |-> "open"]}], 201)

addIncidentUpdate(u, incidentId, valid) ==
    IF ~exists(bDb.incidents, u, incidentId) THEN reject(404)
    ELSE IF ~valid THEN reject(400)
    ELSE \E id \in UpdateIds :
            /\ \A up \in bDb.updates : up.id # id
            /\ commit([bDb EXCEPT !.updates = @ \cup {[id |-> id, incident_id |-> incidentId]}], 201)

patchIncidentStatus(u, incidentId, status) ==
    IF ~exists(bDb.incidents, u, incidentId) THEN reject(404)
    ELSE IF status \notin Statuses THEN reject(400)
    ELSE commit([bDb EXCEPT !.incidents = {IF i.id = incidentId /\ i.user_sub = u
                                           THEN [i EXCEPT !.status = status] ELSE i : i \in @}],
                200)

\* incident_updates.incident_id REFERENCES incidents(id) ON DELETE CASCADE
deleteIncident(u, incidentId) ==
    IF ~exists(bDb.incidents, u, incidentId) THEN reject(404)
    ELSE commit([bDb EXCEPT !.incidents = {i \in @ : i.id # incidentId},
                            !.updates = {up \in @ : up.incident_id # incidentId}], 200)

\* part_002 sendMessage (the feed), as far as its writes go
sendFeedMessage(u, valid) ==
    IF ~valid THEN reject(400)
    ELSE commit([bDb EXCEPT !.team_messages = @ + 1], 201)

\* part_002 pingPresence, as far as its writes go: no audit row
pingPresenceWrites(u, valid) ==
    IF ~valid THEN reject(400)
    ELSE /\ bDb' = [bDb EXCEPT !.presence = @ \cup {u}]
         /\ bStatus' = 200
         /\ bOut' = NoOut
         /\ UNCHANGED <<bTog, notOpsVars>>

\* createdAt = nowIso(): not before the created_at of the rows stored
NowAfter(messages) ==
    IF messages = <<>> THEN {0}
    ELSE {messages[Len(messages)].at, messages[Len(messages)].at + 1}

\* mutant: the receiver is not compared with the sender
sendDirectMessageToAnyone(u, toRaw, bodyRaw) ==
    LET to == trim(toRaw)
        body == trim(bodyRaw)
    IN IF to = <<>> THEN reject(400)
       ELSE IF body = <<>> THEN reject(400)
       ELSE \E createdAt \in NowAfter(bDb.messages) :
               commit([bDb EXCEPT !.messages = Append(@, [from |-> u, to |-> to, body |-> body,
                                                          at |-> createdAt])], 201)

\* routes.ts sendMessage (direct messages)
sendDirectMessage(u, toRaw, bodyRaw) ==
    LET to == trim(toRaw)
        body == trim(bodyRaw)
    IN IF to = <<>> THEN reject(400)
       ELSE IF body = <<>> THEN reject(400)
       ELSE IF to = u THEN reject(400)
       ELSE \E createdAt \in NowAfter(bDb.messages) :
               commit([bDb EXCEPT !.messages = Append(@, [from |-> u, to |-> to, body |-> body,
                                                          at |-> createdAt])], 201)

\* WHERE (sender_sub = $1 AND receiver_sub = $2) OR (sender_sub = $2 AND
\* receiver_sub = $1) ORDER BY created_at ASC LIMIT 200
conversationRows(messages, u, other) ==
    LET Between(m) == (m.from = u /\ m.to = other) \/ (m.from = other /\ m.to = u)
    IN slice(SelectSeq(messages, Between), ConversationLimit)

getConversation(u, other) ==
    /\ bOut' = [NoOut EXCEPT !.conv = conversationRows(bDb.messages, u, other)]
    /\ bStatus' = 200
    /\ UNCHANGED <<bDb, bTog, notOpsVars>>

\* CASE WHEN sender_sub = $1 THEN receiver_sub ELSE sender_sub END
otherSub(m, u) == IF m.from = u THEN m.to ELSE m.from

\* the rows of m: WHERE sender_sub = $1 OR receiver_sub = $1
threadRows(messages, u) ==
    {k \in 1..Len(messages) : messages[k].from = u \/ messages[k].to = u}

\* SELECT DISTINCT ON (other_sub) ... ORDER BY other_sub, created_at DESC:
\* per other_sub any one of the rows with the greatest created_at
listMessageThreads(u) ==
    LET ks == threadRows(bDb.messages, u)
        others == {otherSub(bDb.messages[k], u) : k \in ks}
        First(o) == {k \in ks : /\ otherSub(bDb.messages[k], u) = o
                                /\ \A j \in ks : otherSub(bDb.messages[j], u) = o =>
                                                    bDb.messages[j].at <= bDb.messages[k].at}
    IN /\ \E pick \in [others -> ks] :
             /\ \A o \in others : pick[o] \in First(o)
             /\ bOut' = [NoOut EXCEPT !.threads =
                            {[otherSub |-> o, lastBody |-> bDb.messages[pick[o]].body,
                              lastAt |-> bDb.messages[pick[o]].at,
                              lastFrom |-> bDb.messages[pick[o]].from] : o \in others}]
       /\ bStatus' = 200
       /\ UNCHANGED <<bDb, bTog, notOpsVars>>

InitOps ==
    /\ IdentIdle
    /\ HandleIdle
    /\ SeedIdle
    /\ AuthIdle
    /\ NameIdle
    /\ MentionIdle
    /\ FeedIdle
    /\ OnlineIdle
    /\ PageIdle
    /\ RateIdle
    /\ bDb = EmptyDb
    /\ bTog = [slot \in ToggleSlots |-> ToggleIdle]
    /\ bStatus = 0
    /\ bOut = NoOut

\* the handlers of checklists, steps and incidents
NextOps ==
    \/ \E slot \in ToggleSlots : toggleStepUpdate(slot)
    \/ \E u \in Subjects :
       \/ \E valid \in BOOLEAN : createChecklist(u, valid)
       \/ \E id \in ChecklistIds, valid \in BOOLEAN : addStep(u, id, valid)
       \/ \E slot \in ToggleSlots, id \in ChecklistIds, stepId \in StepIds :
             toggleStepSelect(slot, u, id, stepId)
       \/ \E id \in ChecklistIds : deleteChecklist(u, id)
       \/ \E id \in ChecklistIds, stepId \in StepIds : deleteChecklistStep(u, id, stepId)
       \/ \E valid \in BOOLEAN : createIncident(u, valid)
       \/ \E id \in IncidentIds, valid \in BOOLEAN : addIncidentUpdate(u, id, valid)
       \/ \E id \in IncidentIds, status \in StatusBodies : patchIncidentStatus(u, id, status)
       \/ \E id \in IncidentIds : deleteIncident(u, id)

SpecOps == InitOps /\ [][NextOps]_vars

\* the handlers that validate a body
NextValidate ==
    \E u \in Subjects :
       \/ \E valid \in BOOLEAN : createChecklist(u, valid)
       \/ \E id \in ChecklistIds, valid \in BOOLEAN : addStep(u, id, valid)
       \/ \E valid \in BOOLEAN : createIncident(u, valid)
       \/ \E id \in IncidentIds, valid \in BOOLEAN : addIncidentUpdate(u, id, valid)
       \/ \E id \in IncidentIds, status \in StatusBodies : patchIncidentStatus(u, id, status)
       \/ \E valid \in BOOLEAN : sendFeedMessage(u, valid)
       \/ \E valid \in BOOLEAN : pingPresenceWrites(u, valid)
       \/ \E to \in DmTos \ {SubB, Undefined}, body \in DmBodies : sendDirectMessage(u, to, body)

SpecValidate == InitOps /\ [][NextValidate]_vars

\* the direct-message handlers alone
NextDm ==
    \E u \in Subjects :
       \/ \E to \in DmTos, body \in DmBodies : sendDirectMessage(u, to, body)
       \/ \E other \in Subjects \cup {Undefined} : getConversation(u, other)
       \/ listMessageThreads(u)

SpecDm == InitOps /\ [][NextDm]_vars

----------------------------------------------------------------------------
(* Seeding: listChecklists and listIncidents call seedIfEmpty, whose       *)
(* COUNT and INSERTs are separate awaited queries, so two list requests    *)
(* can be in flight; deleteChecklist and deleteIncident run beside them on *)
(* the tables of the business handlers.                                    *)

ListSlots == {1, 2}

ListIdle == [pc |-> "idle", sub |-> <<>>, op |-> "none"]

\* seedIfEmpty up to if ((r.rows?.[0]?.c ?? 0) > 0) return
seedIfEmptyCount(slot, u, op) ==
    /\ sList[slot].pc = "idle"
    /\ \A other \in ListSlots : other < slot => sList[other].pc # "idle"
    /\ sList' = [sList EXCEPT ![slot] =
                    [pc |-> IF \E c \in bDb.checklists : c.user_sub = u
                            THEN "select" ELSE "insert",
                     sub |-> u, op |-> op]]
    /\ UNCHANGED <<sSeeded, bDb, bTog, bStatus, bOut, notBusinessVars>>

listChecklists(slot, u) == seedIfEmptyCount(slot, u, "listChecklists")

listIncidents(slot, u) == seedIfEmptyCount(slot, u, "listIncidents")

\* seedIfEmpty from the INSERT of the checklist to audit(userSub, "seed", ...)
seedIfEmptyInsert(slot) ==
    /\ sList[slot].pc = "insert"
    /\ bDb.audit < MaxOpsAudit
    /\ \E checklistId \in ChecklistIds, incidentId \in IncidentIds, updateId \in UpdateIds :
          /\ \A c \in bDb.checklists : c.id # checklistId
          /\ \A i \in bDb.incidents : i.id # incidentId
          /\ \A up \in bDb.updates : up.id # updateId
          /\ bDb' = [bDb EXCEPT
                        !.checklists = @ \cup {[id |-> checklistId, user_sub |-> sList[slot].sub]},
                        !.steps = @ \cup {[id |-> 100 * checklistId + k,
                                           checklist_id |-> checklistId, done |-> FALSE] :
                                          k \in 1..SeedSteps},
                        !.incidents = @ \cup {[id |-> incidentId, user_sub |-> sList[slot].sub,
                                               status |-> "investigating"]},
                        !.updates = @ \cup {[id |-> updateId, incident_id |-> incidentId]},
                        !.audit = @ + 1]
    /\ sSeeded' = [sSeeded EXCEPT ![sList[slot].sub] =
                      [checklists |-> @.checklists + 1, incidents |-> @.incidents + 1]]
    /\ sList' = [sList EXCEPT ![slot].pc = "select"]
    /\ UNCHANGED <<bTog, bStatus, bOut, notBusinessVars>>

\* listChecklists / listIncidents after seedIfEmpty: the SELECTs and res.json
listSelect(slot) ==
    /\ sList[slot].pc = "select"
    /\ sList' = [sList EXCEPT ![slot] = ListIdle]
    /\ bStatus' = 200
    /\ UNCHANGED <<sSeeded, bDb, bTog, bOut, notBusinessVars>>

InitSeed ==
    /\ IdentIdle
    /\ HandleIdle
    /\ AuthIdle
    /\ NameIdle
    /\ MentionIdle
    /\ FeedIdle
    /\ OnlineIdle
    /\ PageIdle
    /\ RateIdle
    /\ bDb = EmptyDb
    /\ bTog = [slot \in ToggleSlots |-> ToggleIdle]
    /\ bStatus = 0
    /\ bOut = NoOut
    /\ sList = [slot \in ListSlots |-> ListIdle]
    /\ sSeeded = [u \in Subjects |-> [checklists |-> 0, incidents |-> 0]]

NextSeed ==
    \/ \E slot \in ListSlots : seedIfEmptyInsert(slot)
    \/ \E slot \in ListSlots : listSelect(slot)
    \/ \E u \in Subjects :
       \/ \E slot \in ListSlots : listChecklists(slot, u)
       \/ \E slot \in ListSlots : listIncidents(slot, u)
       \/ \E id \in ChecklistIds : deleteChecklist(u, id)
       \/ \E id \in IncidentIds : deleteIncident(u, id)

SpecSeed == InitSeed /\ [][NextSeed]_vars

----------------------------------------------------------------------------
(* Vocabulary of the properties *)

ContainsBar(d) == \E i \in 1..Len(d) : d[i] = "|"

\* a meaningful display name for subject s: non-empty, not s, no "|"
MeaningfulName(d, s) == d # Null /\ d # <<>> /\ d # s /\ ~ContainsBar(d)

\* the claims carry the subject and no name, nickname, preferred_username or email
BareClaims(u) ==
    u.name = Null /\ u.nickname = Null /\ u.preferred_username = Null /\ u.email = Null

\* slot r has a request whose upsert has committed
Committed(r) == req[r].wrote # -1

\* this step commits the upsert of slot r's request
Upserts(r) == req[r].wrote = -1 /\ req'[r].wrote # -1

SubOf(r) == req[r].user.sub

----------------------------------------------------------------------------
(* Properties *)

\* C1: once the stored display name of a subject is meaningful, an upsert
\* whose claims carry only the subject leaves the stored display name as it is.
C1_NonRegression ==
    [][\A r \in Reqs :
          (/\ Upserts(r)
           /\ BareClaims(req[r].user)
           /\ users[SubOf(r)] # NoRow
           /\ MeaningfulName(users[SubOf(r)].display_name, SubOf(r)))
          => users'[SubOf(r)].display_name = users[SubOf(r)].display_name]_vars

\* C2: with upsertUserProfile, when a request carrying a meaningful name and a
\* request carrying only the subject, both of one subject, have both committed,
\* the stored display name is the meaningful name.
C2_NoLostUpdate ==
    build = "profile" =>
        \A r1, r2 \in Reqs :
            (/\ r1 # r2
             /\ Committed(r1) /\ Committed(r2)
             /\ SubOf(r1) = SubOf(r2)
             /\ req[r1].user.name # Null
             /\ MeaningfulName(req[r1].user.name, SubOf(r1))
             /\ BareClaims(req[r2].user))
            => users[SubOf(r1)].display_name = req[r1].user.name

\* C3: an upsert for a subject with no row, from claims that carry only the
\* subject, creates a row whose display name is the subject.
C3_FirstWrite ==
    [][\A r \in Reqs :
          (Upserts(r) /\ BareClaims(req[r].user) /\ users[SubOf(r)] = NoRow)
          => /\ users'[SubOf(r)] # NoRow
             /\ users'[SubOf(r)].display_name = SubOf(r)]_vars

\* C3 witness: upsertUserProfile found no row for the bare subject, nothing
\* else is in flight, and the row now carries the subject as display name
C3_Witness ==
    /\ build = "profile"
    /\ Committed(1) /\ req[1].existing = NoRow /\ req[1].user = Bare(SubA)
    /\ req[2].pc = "idle"
    /\ users[SubA] # NoRow /\ users[SubA].display_name = SubA

\* C4: when a row exists, a name claim that contains "|" and is not the
\* request's own subject never replaces the stored display name
\* (upsertUserProfile).
C4_ProviderLikeNeverReplaces ==
    [][\A r \in Reqs :
          (/\ build = "profile"
           /\ Upserts(r)
           /\ req[r].user.name # Null
           /\ ContainsBar(req[r].user.name)
           /\ req[r].user.name # SubOf(r)
           /\ users[SubOf(r)] # NoRow)
          => users'[SubOf(r)].display_name = users[SubOf(r)].display_name]_vars

\* C5: toHandle applied to its own result gives that result.
C5_Idempotent == hPc = "twice" => hTwice = hOnce

\* C6: a handle returned by toHandle (middleware.ts) is at most 32 characters
\* of [a-z0-9_.-] and neither starts nor ends with the separator "-".
C6_HandleShape ==
    (hPc \in {"once", "twice"} /\ hFn = "toHandle") =>
        /\ Len(hOnce) <= HandleMax
        /\ \A i \in 1..Len(hOnce) : hOnce[i] \in HandleChars
        /\ hOnce # <<>> => (hOnce[1] # "-" /\ hOnce[Len(hOnce)] # "-")

\* C7: whenever an upsert leaves the stored display name as it is because the
\* candidate is not meaningful (bare claims), the stored handle is unchanged
\* too: it is never replaced by a handle derived from the rejected candidate.
C7_HandleFollowsName ==
    [][\A r \in Reqs :
          (/\ build \in {"profile", "me"}
           /\ Upserts(r)
           /\ BareClaims(req[r].user)
           /\ users[SubOf(r)] # NoRow
           /\ users'[SubOf(r)].display_name = users[SubOf(r)].display_name)
          => users'[SubOf(r)].handle = users[SubOf(r)].handle]_vars

\* C8: on an upsert over an existing row, an absent email (picture) claim
\* leaves the stored email (picture) as it is, and a present one replaces it.
C8_EmailPictureKept ==
    [][\A r \in Reqs :
          (Upserts(r) /\ users[SubOf(r)] # NoRow)
          => LET u == req[r].user
                 old == users[SubOf(r)]
                 new == users'[SubOf(r)]
             IN /\ new.email = IF u.email = Null THEN old.email ELSE u.email
                /\ new.picture_url = IF u.picture = Null THEN old.picture_url
                                     ELSE u.picture]_vars

\* C9: every upsert that commits sets the subject's last_seen to the current
\* time, whatever else changes, and no step makes a stored last_seen smaller.
C9_LastSeenAdvances ==
    [][/\ \A r \in Reqs : Upserts(r) => users'[SubOf(r)].last_seen = now
       /\ \A s \in Subjects :
             users[s] # NoRow =>
                 users'[s] # NoRow /\ users'[s].last_seen >= users[s].last_seen]_vars

\* C9 witness: a bare request at time 1 over the row a named request left at
\* time 0: only last_seen moved
C9_Witness ==
    /\ req[1].user = Claims(SubA, NameJo, Null, Pic2) /\ req[1].wrote = 0
    /\ req[2].user = Bare(SubA) /\ req[2].wrote = 1
    /\ lastCommit[SubA] = 2
    /\ users[SubA] # NoRow
    /\ users[SubA].display_name = NameJo
    /\ users[SubA].last_seen = 1

\* C10: after the upserts of concurrent requests of one subject have
\* committed, the stored last_seen is the time written by the upsert that
\* committed last.
C10_LastCommitWins ==
    \A s \in Subjects :
        lastCommit[s] # 0 =>
            /\ users[s] # NoRow
            /\ users[s].last_seen = req[lastCommit[s]].wrote

\* C10 witness: two upsertUserProfile requests of one subject that both ran
\* their SELECT before either INSERT, and committed at different times
C10_Witness ==
    /\ build = "profile"
    /\ Committed(1) /\ Committed(2)
    /\ SubOf(1) = SubA /\ SubOf(2) = SubA
    /\ req[1].existing = NoRow /\ req[2].existing = NoRow
    /\ req[1].wrote = 0 /\ req[2].wrote = 1
    /\ lastCommit[SubA] = 2

\* C11: a verified claim set without a subject is rejected as a failed
\* authentication: its handler never runs, no users row is written for it,
\* and no row is ever keyed by the string form of the missing subject.
C11_NoSubjectRejected ==
    /\ aUsers[Undefined] = NoRow
    /\ (aReq.token = "accepted" /\ aReq.payload.sub = Null) =>
          /\ aReq.pc # "handler"
          /\ ~aReq.ran
          /\ aReq.upserts = 0
          /\ aReq.pc = "done" => aReq.status = 401

\* C12: a request with a missing or rejected bearer token is answered 401
\* at once, never reaches a handler, and no step taken while it is the
\* request in flight changes the users table or a business table.
C12_AuthFailureWritesNothing ==
    [][aReq'.token \in {"missing", "rejected"} =>
          /\ aReq'.pc = "done"
          /\ aReq'.status = 401
          /\ ~aReq'.ran
          /\ aReq'.upserts = 0
          /\ aUsers' = aUsers
          /\ aBusiness' = aBusiness]_vars

\* a rejected token was answered while rows exist in both tables
C12_Witness ==
    /\ aReq.token = "rejected"
    /\ aReq.pc = "done"
    /\ aReq.status = 401
    /\ aUsers[SubA] # NoRow
    /\ aBusiness > 0

\* C13: a request whose token verified and whose identity upsert failed on
\* an unavailable store is not answered as an authentication failure: it has
\* run its handler or is answered as a server error.
C13_StoreFailureNotAuthFailure ==
    (aReq.pc = "done" /\ aReq.storeFailed) =>
        /\ aReq.status # 401
        /\ aReq.ran \/ aReq.status = 500

\* C14: a request that has reached its business handler has had exactly one
\* identity upsert, and no request has more than one.
C14_UpsertBeforeHandler ==
    /\ aReq.upserts <= 1
    /\ (aReq.pc = "handler" \/ aReq.ran) => aReq.upserts = 1

\* a claim that is present and not only whitespace
NonBlank(v) == v # Null /\ trim(v) # <<>>

\* name, nickname, preferred_username, email, subject: the precedence of the claim
Precedence(u) == <<u.name, u.nickname, u.preferred_username, u.email, u.sub>>

\* C15: the candidate display name is the first of name, nickname,
\* preferred_username, email, subject that is present and not blank (as it
\* is, or trimmed); no other claim and no blank earlier field is chosen.
C15_FirstNonEmptyWins ==
    nPc = "out" =>
        LET fields == Precedence(nIn)
            first == CHOOSE i \in 1..5 :
                        NonBlank(fields[i]) /\ \A j \in 1..(i - 1) : ~NonBlank(fields[j])
        IN nOut \in {fields[first], trim(fields[first])}

\* C16: every users row has a display name that is neither NULL nor empty,
\* and no step of an identity, feed or presence operation removes a row.
C16_RowsKeepDisplayName ==
    [][\A s \in Subjects :
          /\ fUsers'[s] # NoRow => Truthy(fUsers'[s].display_name)
          /\ fUsers[s] # NoRow => fUsers'[s] # NoRow]_vars

\* a row written from bare claims is there after a message and a ping of its subject
C16_Witness ==
    /\ fUsers[SubA] # NoRow
    /\ fUsers[SubA].display_name = SubA
    /\ \E i \in 1..Len(fMessages) : fMessages[i].user_sub = SubA
    /\ fPresence[SubA] # NoRow

\* C17: the label and the handle stored on a new feed message are the
\* display name and the handle of the sender's users row as it stands when
\* the handler runs (after the request's identity upsert).
C17_SnapshotIsProfile ==
    [][Len(fMessages') > Len(fMessages) =>
          LET m == fMessages'[Len(fMessages')]
              profile == fUsers[m.user_sub]
          IN profile # NoRow =>
                /\ m.by_label = profile.display_name
                /\ m.handle = profile.handle]_vars

\* the positions of body where a mention starts: an "@" before a token character
MentionStarts(body) ==
    {i \in 1..(Len(body) - 1) : body[i] = "@" /\ body[i + 1] \in MentionChars}

\* the lowercased token after the "@" at position i: the characters up to
\* the first one outside the class
TokenAt(body, i) ==
    LET stop == CHOOSE j \in (i + 1)..(Len(body) + 1) :
                    /\ j = Len(body) + 1 \/ body[j] \notin MentionChars
                    /\ \A k \in (i + 1)..(j - 1) : body[k] \in MentionChars
    IN [k \in 1..(stop - i - 1) |-> LowerChar(body[i + k])]

\* the starts whose token has not occurred at an earlier start
FirstOccurrences(body) ==
    {i \in MentionStarts(body) :
        \A j \in MentionStarts(body) : j < i => TokenAt(body, j) # TokenAt(body, i)}

\* C18: extractMentions gives the lowercased tokens after "@", each once, in
\* the order of their first occurrence, the first 20 of them.
C18_Mentions ==
    mPc = "out" =>
        LET firsts == FirstOccurrences(mIn)
        IN /\ Len(mOut) = IF Cardinality(firsts) < 20 THEN Cardinality(firsts) ELSE 20
           /\ \A k \in 1..Len(mOut) :
                 \E i \in firsts :
                    /\ Cardinality({j \in firsts : j < i}) = k - 1
                    /\ mOut[k] = TokenAt(mIn, i)

\* more than 20 distinct tokens, one of them twice, cut to 20
C18_Witness ==
    /\ mPc = "out"
    /\ Cardinality(FirstOccurrences(mIn)) > 20
    /\ Cardinality(MentionStarts(mIn)) > Cardinality(FirstOccurrences(mIn))
    /\ Len(mOut) = 20

\* C19: a listing of the feed has every stored message, with "by" and
\* handle from the users row of its subject when there is one, else from the
\* message's stored label and handle, else the subject; "by" is never empty.
C19_EveryMessageListed ==
    (fReq.pc = "done" /\ fReq.op = "list") =>
        \A i \in 1..Len(fMessages) :
            LET m == fMessages[i]
                profile == fUsers[m.user_sub]
            IN \E row \in fReq.listing :
                  /\ row.id = m.id
                  /\ row.by = Coalesce(Existing(profile, "display_name"),
                                       Coalesce(m.by_label, m.user_sub))
                  /\ row.handle = Coalesce(Existing(profile, "handle"), m.handle)
                  /\ Truthy(row.by)

\* C20: a ping of subject S with a body the schema accepts leaves the
\* presence record of S with the display name and handle of S's users row
\* (when the row has them), the ping's page and the ping's time, whatever
\* the users row holds; no other subject's record changes.
C20_PingUpsertsPresence ==
    [][(fReq.pc = "handler" /\ fReq.op = "ping" /\ fReq'.pc = "done" /\ fReq'.status # 400) =>
          LET S == fReq.user.sub
              profile == fUsers[S]
          IN /\ fPresence'[S] # NoRow
             /\ fPresence'[S].page = fReq.page
             /\ fPresence'[S].last_seen = fNow
             /\ profile # NoRow => fPresence'[S].label = profile.display_name
             /\ (profile # NoRow /\ profile.handle # Null) =>
                    fPresence'[S].handle = profile.handle
             /\ \A other \in Subjects \ {S} : fPresence'[other] = fPresence[other]]_vars

\* C21: list-online returns the records seen within the last 90 seconds
\* (89 seconds ago included, 91 excluded), with or without a users row,
\* newest first, never more than 50: a recent record is left out only when
\* 50 records at least as new are returned.
C21_ListOnline ==
    oPc = "out" =>
        LET returned == {oOut[k] : k \in 1..Len(oOut)}
        IN /\ Len(oOut) <= 50
           /\ returned \subseteq oIn
           /\ Cardinality(returned) = Len(oOut)
           /\ \A r \in returned : r.last_seen >= 0 - 90
           /\ \A k \in 1..(Len(oOut) - 1) : oOut[k].last_seen >= oOut[k + 1].last_seen
           /\ \A r \in oIn :
                 (r.last_seen >= 0 - 89 /\ r \notin returned) =>
                    /\ Len(oOut) = 50
                    /\ \A q \in returned : q.last_seen >= r.last_seen

\* the stored row with this id
RowOf(messages, id) == CHOOSE m \in messages : m.id = id

\* a comes before b in listing order: later timestamp, then greater id
ListedBefore(a, b) ==
    a.created_at > b.created_at \/ (a.created_at = b.created_at /\ a.id > b.id)

\* C22: every page has at most limit rows, all strictly before the cursor
\* it was asked with; a traversal over an unchanging set that has reached
\* its end has returned every message exactly once, in timestamp-descending
\* then id-descending order.
C22_NoOverlapNoGap ==
    [][(pPc \in {"idle", "paging"} /\ pSeen' # pSeen) =>
          /\ Len(pSeen') - Len(pSeen) <= pLimit'
          /\ \A k \in (Len(pSeen) + 1)..Len(pSeen') :
                pCursor # NoCursor =>
                   ListedBefore([created_at |-> pCursor.before, id |-> pCursor.beforeId],
                                RowOf(pMessages, pSeen'[k]))
          /\ (pPc' = "end" /\ ~pChanged') =>
                /\ {pSeen'[k] : k \in 1..Len(pSeen')} = {m.id : m \in pMessages}
                /\ Len(pSeen') = Cardinality(pMessages)
                /\ \A k \in 1..(Len(pSeen') - 1) :
                      ListedBefore(RowOf(pMessages, pSeen'[k]),
                                   RowOf(pMessages, pSeen'[k + 1]))]_vars

\* a traversal of three messages, two of them with the same timestamp, in
\* pages of one has ended
C22_Witness ==
    /\ pPc = "end"
    /\ ~pChanged
    /\ pLimit = 1
    /\ Len(pSeen) = 3
    /\ \E a, b \in pMessages : a # b /\ a.created_at = b.created_at

\* C23: the page a call returns reports hasMore = true exactly when a
\* stored message lies strictly after its last row in listing order; an
\* empty page and a final page that is exactly full report false.
C23_HasMoreExact ==
    [][(pPc' # pPc \/ pSeen' # pSeen) =>
          pHasMore' = /\ pSeen' # pSeen
                      /\ \E m \in pMessages :
                            ListedBefore(RowOf(pMessages, pSeen'[Len(pSeen')]), m)]_vars

\* a traversal of two messages in pages of two has ended with its first page
C23_Witness ==
    /\ pPc = "end"
    /\ pLimit = 2
    /\ Len(pSeen) = 2
    /\ Cardinality(pMessages) = 2
    /\ ~pHasMore

\* C29: with sends running beside it, a traversal never returns a message
\* twice, and once it has reached hasMore = false it has returned every
\* message that was stored at its first call.
C29_TraversalUnderSends ==
    /\ \A j, k \in 1..Len(pSeen) : pSeen[j] = pSeen[k] => j = k
    /\ pPc = "end" => pStart \subseteq {pSeen[k] : k \in 1..Len(pSeen)}

\* a traversal of several pages has ended, and a message stored while it
\* ran is not among the rows it returned
C29_Witness ==
    /\ pPc = "end"
    /\ pChanged
    /\ pStart # {}
    /\ Len(pSeen) > pLimit
    /\ \E m \in pMessages : m.id \notin pStart /\ \A k \in 1..Len(pSeen) : pSeen[k] # m.id

\* the routes main() registers with requireAuth
AuthProtected(b, route) ==
    \E k \in 1..Len(layers(b, route)) : layers(b, route)[k] = "requireAuth"

\* C24: a request to an auth-protected /api route from an address that had
\* exhausted its points when it arrived runs neither the auth middleware
\* nor a handler, and its response is 429 rate_limited.
C24_RateLimitCovers ==
    (rReq.pc # "idle" /\ rReq.exhausted /\ AuthProtected(rBuild, rReq.route)) =>
        /\ rReq.ran \cap {"requireAuth", "handler"} = {}
        /\ rReq.pc = "done" => rReq.status = 429

\* the checklist exists and belongs to u
OwnChecklist(u, id) == [id |-> id, user_sub |-> u] \in bDb.checklists

\* the step exists in a checklist of u that is named with it
OwnStep(u, checklistId, stepId) ==
    /\ OwnChecklist(u, checklistId)
    /\ \E done \in BOOLEAN : [id |-> stepId, checklist_id |-> checklistId, done |-> done] \in bDb.steps

\* the incident exists and belongs to u
OwnIncident(u, id) == \E i \in bDb.incidents : i.id = id /\ i.user_sub = u

\* the step is the response not_found and no row has changed
NotFoundNoChange == bStatus' = 404 /\ bDb' = bDb

\* the step is the response validation error and no row has changed
ValidationNoChange == bStatus' = 400 /\ bDb' = bDb

\* only white space, or nothing
AllBlank(s) == \A k \in 1..Len(s) : s[k] = " "

\* C25: add step, toggle step, delete checklist, delete step, add incident
\* update, patch status and delete incident on a checklist, step or incident
\* that does not exist or belongs to another subject answer not_found and
\* change no checklist, step, incident, incident-update or audit row.
C25_OwnershipScoping ==
    [][NotFoundNoChange \/ \A u \in Subjects :
          /\ \A id \in ChecklistIds :
                ~OwnChecklist(u, id) =>
                   /\ \A valid \in BOOLEAN : addStep(u, id, valid) => NotFoundNoChange
                   /\ deleteChecklist(u, id) => NotFoundNoChange
          /\ \A id \in ChecklistIds, stepId \in StepIds :
                ~OwnStep(u, id, stepId) =>
                   /\ \A slot \in ToggleSlots :
                         toggleStepSelect(slot, u, id, stepId) => NotFoundNoChange
                   /\ deleteChecklistStep(u, id, stepId) => NotFoundNoChange
          /\ \A id \in IncidentIds :
                ~OwnIncident(u, id) =>
                   /\ \A valid \in BOOLEAN : addIncidentUpdate(u, id, valid) => NotFoundNoChange
                   /\ \A status \in StatusBodies :
                         patchIncidentStatus(u, id, status) => NotFoundNoChange
                   /\ deleteIncident(u, id) => NotFoundNoChange]_vars

\* a not_found response while both subjects have a checklist, one with a
\* step, and an incident is stored
C25_Witness ==
    /\ bStatus = 404
    /\ \A u \in Subjects : \E c \in bDb.checklists : c.user_sub = u
    /\ bDb.steps # {}
    /\ bDb.incidents # {}

C27_ToggleFlips ==
    [][\A slot \in ToggleSlots :
          toggleStepUpdate(slot) =>
             \A s \in bDb.steps :
                (s.id = bTog[slot].sid /\ s.checklist_id = bTog[slot].cid) =>
                   [s EXCEPT !.done = ~s.done] \in bDb'.steps]_vars

\* u is the sender or the receiver of the direct message
Involves(m, u) == m.from = u \/ m.to = u

\* the stored direct messages between u and o
Between(u, o) ==
    {k \in 1..Len(bDb.messages) : /\ Involves(bDb.messages[k], u)
                                  /\ Involves(bDb.messages[k], o)}

\* C30: no stored direct message has its sender as receiver or an empty
\* body; getConversation called by u returns only messages u sent or
\* received; listMessageThreads called by u returns, for every counterpart
\* u has messages with, exactly one entry, made of a latest message between
\* the two, and nothing else.
C30_DirectMessages ==
    [][/\ \A k \in 1..Len(bDb'.messages) :
             /\ bDb'.messages[k].from # bDb'.messages[k].to
             /\ ~AllBlank(bDb'.messages[k].body)
       /\ \A u \in Subjects :
             /\ \A other \in Subjects \cup {Undefined} :
                   getConversation(u, other) =>
                      \A k \in 1..Len(bOut'.conv) : Involves(bOut'.conv[k], u)
             /\ listMessageThreads(u) =>
                   /\ \A e \in bOut'.threads :
                         \E k \in Between(u, e.otherSub) :
                            /\ e.otherSub # u
                            /\ e.lastBody = bDb.messages[k].body
                            /\ e.lastAt = bDb.messages[k].at
                            /\ e.lastFrom = bDb.messages[k].from
                            /\ \A j \in Between(u, e.otherSub) :
                                  bDb.messages[j].at <= e.lastAt
                   /\ \A o \in (Subjects \cup {Undefined}) \ {u} :
                         Cardinality({e \in bOut'.threads : e.otherSub = o}) =
                            IF Between(u, o) = {} THEN 0 ELSE 1]_vars

\* listMessageThreads has answered with two threads while four direct
\* messages are stored, the last two with the same timestamp
C30_Witness ==
    /\ Cardinality(bOut.threads) = 2
    /\ Len(bDb.messages) = 4
    /\ bDb.messages[3].at = bDb.messages[4].at

\* C28: whatever listChecklists, listIncidents and delete requests a
\* subject makes, and however they interleave, at most one seed checklist
\* and at most one seed incident are ever inserted for it.
C28_SeededOnce ==
    \A u \in Subjects : sSeeded[u].checklists <= 1 /\ sSeeded[u].incidents <= 1

============================================================================
